---- MODULE Spec2Model ----
(***************************************************************************)
(* A model of the concurrency / caching core of local-knowledge-base:      *)
(*   - utils/file_lock.py   FileLock, KnowledgeMapLock  (POSIX branch,     *)
(*                          os.name != 'nt': fcntl.flock on an open file   *)
(*                          description, unlink of the marker path)        *)
(*   - tools/map_generator.py  generate_knowledge_map / load_knowledge_map *)
(*   - utils/cache.py       DocumentCache                                  *)
(* Each subsystem has its own specification over the shared variables.     *)
(***************************************************************************)
EXTENDS Integers, Sequences, FiniteSets, TLC

(***************************************************************************)
(* Bounds of the model.                                                    *)
(***************************************************************************)
\* number of processes that use the same lock file
NumProcs == 2
\* number of descriptors the processes together may lose by calling
\* acquire() on a FileLock object that already holds the lock
MaxLeaks == 1
\* number of poll intervals after which time.time() - start_time >= timeout
\* is certainly true (timeout / 0.1 in the code)
TimeoutPolls == 1
\* number of acquire() calls the processes make altogether
MaxAcquires == 3

Procs == 1..NumProcs
\* inode ids are recycled once no directory entry and no descriptor refers
\* to them, so this many ids always leave a free one for a creating open()
MaxInodes == NumProcs + MaxLeaks + 1
Inodes == 1..MaxInodes
\* "no inode": the path does not exist / the descriptor attribute is None
NoIno == 0

VARIABLES
    \* ---- the file system entry <directory>/.knowledge_map.lock ----
    lockPath,      \* inode the marker path names, NoIno when the path is absent
    inodeBody,     \* inodeBody[i]: text of the file, 0 = empty, else a pid
    flockOwner,    \* flockOwner[i]: process whose open file description holds
                   \* the exclusive flock on inode i, 0 = not locked
    \* ---- one FileLock object per process ----
    lock_file_fd,  \* self.lock_file_fd: inode of the descriptor, NoIno = None
    fdLocked,      \* the description behind lock_file_fd holds the flock
    leaked,        \* descriptors lost by overwriting self.lock_file_fd: the
                   \* set of inodes they keep open (each still holds its flock)
    is_locked,     \* self.is_locked
    pc,            \* position of the process inside acquire() / release()
    blocking,      \* the blocking argument of the running acquire()
    elapsed,       \* poll intervals slept by the running acquire()
    attempt,       \* loop index of release()'s unlink retry loop
    acqResult,     \* value returned by the last acquire(): "none", "true", "false"
    granted,       \* history: acquire() returned True and release() has not
                   \* been called since
    releasedOnce,  \* history: a release() of this object has run to completion
    acquires,      \* history: number of acquire() calls made so far
    lastCall       \* history: the method last called on the object: "none",
                   \* "acquire", "release" (called with is_locked set) or
                   \* "release_idle" (called with is_locked clear)

VARIABLES
    \* ---- the index file <directory>/knowledge_map.yaml ----
    mapExists,     \* the index file exists
    mapData,       \* its content: a sequence of chunks [ver, k], chunk k of
                   \* the serialised index of build ver (ver 0: the index
                   \* that was there before any build of the model)
    \* ---- one generate_knowledge_map call per process ----
    bpc,           \* position of the process inside generate_knowledge_map
    bver,          \* id of the index the running build has computed
    bpos,          \* file offset of the build's descriptor, in chunks
    nextVer,       \* id the next build gets
    \* ---- one load_knowledge_map caller ----
    rpc,           \* position of the reader inside load_knowledge_map
    loaded         \* what the last load_knowledge_map returned: kind "none"
                   \* before any load, "absent" for None, "data" with the
                   \* content it parsed

buildVars == <<mapExists, mapData, bpc, bver, bpos, nextVer, rpc, loaded>>

VARIABLES
    \* ---- the documents on disk ----
    fileMtime,     \* fileMtime[f]: st_mtime of document f, 0 when stat fails
                   \* (file deleted or unreadable)
    \* ---- one DocumentCache object ----
    max_size_bytes, \* self.max_size_bytes
    max_items,     \* self.max_items
    current_size,  \* self.current_size
    cache,         \* self.cache: the OrderedDict as the sequence of its
                   \* entries, oldest first
    hits,          \* self.hits
    misses,        \* self.misses
    \* ---- history ----
    lastOp,        \* the last operation, its arguments and its return value
    recency        \* the keys in the order of their last use (put or get
                   \* hit), least recently used first

cacheVars == <<fileMtime, max_size_bytes, max_items, current_size, cache,
               hits, misses, lastOp, recency>>

VARIABLES
    \* ---- the threads of a host that share the DocumentCache ----
    th,            \* th[t]: the frame of thread t's running cache method: its
                   \* position, arguments and locals, and the exception its
                   \* last method raised
    calls          \* calls[t]: number of cache methods thread t has called

threadVars == <<th, calls>>

VARIABLES
    \* ---- scoped use of the FileLock objects ("with lock:") ----
    scope,         \* scope[p]: where process p is in its with-statement:
                   \* "none" outside, "enter" inside __enter__, "body" inside
                   \* the block, "raised" after __enter__ raised TimeoutError,
                   \* "exit" / "exit_exc" inside __exit__ after the block
                   \* ended normally / by an exception, "left" / "left_exc"
                   \* once the statement is left
    \* ---- one caller of KnowledgeMapLock.is_locked_by_another_process ----
    ppc,           \* position of the caller inside the probe
    probePid,      \* lock_pid, the process id the probe has read
    probeResult    \* value the last probe returned: "none", "true", "false"

scopeVars == <<scope>>
probeVars == <<ppc, probePid, probeResult>>

VARIABLES
    \* ---- the watched directory ----
    wmtime,        \* wmtime[f]: st_mtime of file f, 0 when f does not exist
    wdenied,       \* the files whose stat() raises OSError
    \* ---- one DocumentWatcher object ----
    last_snapshot, \* self._last_snapshot as a function: the recorded mtime
                   \* of each file, 0 for a path that is not a key
    changes,       \* the dictionary the last check_for_changes() returned
    \* ---- history ----
    appeared,      \* files that have become visible to a scan since the
                   \* previous check (or the construction) and still are
    vanished,      \* files that have stopped being visible since then
    changedSince,  \* the directory has changed since then
    reported       \* visible files that a check has returned in 'added'
                   \* since they became visible

watchVars == <<wmtime, wdenied, last_snapshot, changes, appeared, vanished,
               changedSince, reported>>

VARIABLES
    \* ---- one DocumentExplorer object and its running ask() ----
    apc,           \* position inside ask(): "idle" before the call, "loop" at
                   \* the head of the for loop, "parse" once the utterance is
                   \* appended to messages, "done" after the return
    max_iterations, \* self.max_iterations
    iteration,     \* index of the loop iteration that runs or runs next
    assistant_message, \* the local of that name: None while it is unbound,
                   \* else Some(text)
    messages,      \* the local list of messages, each [role, content]
    action_line,   \* the locals of these names, set by the loop over the
    input_line,    \* lines of the utterance: None or Some(text)
    steps,         \* the step log
    conversation_history, \* self.conversation_history
    result,        \* the dictionary ask() returned: [answer, steps], and the
                   \* terminal state of the call; state "Iterating" before
    \* ---- history ----
    requests,      \* number of generation requests (ollama.chat calls)
    failed,        \* how the latest request ended, [kind, accumulated]: kind
                   \* "none", "call" (ollama.chat raised) or "stream" (the
                   \* stream raised), and the text read from its stream
    dispatches,    \* number of _call_tool calls
    streamed,      \* the stream the latest request returned, <<>> when
                   \* the call itself raised
    chunk_count    \* the local of that name after the latest stream

agentVars == <<apc, max_iterations, iteration, assistant_message, messages,
               action_line, input_line, steps, conversation_history, result,
               requests, failed, dispatches, streamed, chunk_count>>

\* values of loaded
NotLoaded == [kind |-> "none", data |-> <<>>]
Absent == [kind |-> "absent", data |-> <<>>]

lockVars == <<lockPath, inodeBody, flockOwner, lock_file_fd, fdLocked, leaked,
              is_locked, pc, blocking, elapsed, attempt, acqResult, granted,
              releasedOnce, acquires, lastCall>>

VARIABLES
    \* ---- the interactive chat loop of the command line (cli.py) ----
    cpc,           \* "input" at the prompt, "responding" inside
                   \* explorer.chat(), "exited" after the loop
    interrupt_count, \* the local of that name
    \* ---- history ----
    pressed,       \* interrupts delivered since the last submitted input or
                   \* completed response
    swallowed,     \* interrupts of the running turn that were caught inside
                   \* the explorer and dropped
    turns,         \* messages submitted so far
    histBefore,    \* conversation_history when the running turn began
    lastTurn       \* how the latest turn ended: [kind, swallowed, kept]

chatVars == <<cpc, interrupt_count, pressed, swallowed, turns, histBefore, lastTurn>>

VARIABLES
    \* ---- the document directory ----
    disk,          \* file name -> [present, readable, content]
    map_file,      \* knowledge_map.yaml: [kind, total_documents, documents]
    \* ---- generate_knowledge_map (map_generator.py) ----
    gpc,           \* position inside the call
    fast_mode,     \* the parameter of that name
    files_to_process, \* the local of that name
    idx,           \* index of the file the loop is at (from 1)
    document_entries, \* the local of that name
    analysed,      \* [description, key_concepts] of the file at idx
    ended,         \* how the latest call ended: [kind, text]
    \* ---- DocumentExplorer.__init__ / rebuild_map (explorer.py) ----
    epc,           \* position of the caller
    knowledge_map, \* self.knowledge_map, an Optional
    \* ---- history ----
    readAs,        \* file name -> what the loop found when it read the file
    atCall         \* the supported files present when the latest call began

VARIABLES
    \* ---- the clock and the callers of the DocumentWatcher ----
    now,           \* time.time(), in minutes
    last_check_time, \* self._last_check_time
    wpc,           \* position of the caller: "idle", "timing" inside
                   \* should_rebuild_map, "summary" inside check_for_updates
    verdict,       \* what should_rebuild_map returned last
    warning,       \* what check_for_updates returned last, an Optional
    \* ---- history ----
    detected,      \* the changes that made has_changes() true
    deferral       \* "pending": should_rebuild_map returned early with a
                   \* change of the directory not yet checked; "reported":
                   \* the check just made was the first after that

callerVars == <<wpc, verdict, warning, detected, deferral>>
pollVars == <<now, last_check_time, callerVars>>

genVars == <<disk, map_file, gpc, fast_mode, files_to_process, idx,
             document_entries, analysed, ended, epc, knowledge_map,
             readAs, atCall>>

vars == <<lockVars, buildVars, cacheVars, threadVars, scopeVars, probeVars,
          watchVars, agentVars, chatVars, genVars, pollVars>>

\* what the steps of each subsystem leave alone
offLockUsers == <<buildVars, cacheVars, threadVars, watchVars, agentVars,
                  chatVars, genVars, pollVars>>
offLock == <<offLockUsers, scopeVars, probeVars>>
offScope == <<offLockUsers, probeVars>>
offProbe == <<offLockUsers, lockVars, scopeVars>>
offBuild == <<lockVars, cacheVars, threadVars, scopeVars, probeVars, watchVars,
             agentVars, chatVars, genVars, pollVars>>
offCache == <<lockVars, buildVars, threadVars, scopeVars, probeVars, watchVars,
             agentVars, chatVars, genVars, pollVars>>
offThreads == <<lockVars, buildVars, scopeVars, probeVars, watchVars, agentVars,
               chatVars, genVars, pollVars>>
offWatch == <<lockVars, buildVars, cacheVars, threadVars, scopeVars, probeVars,
             agentVars, chatVars, genVars>>
offAgent == <<lockVars, buildVars, cacheVars, threadVars, scopeVars, probeVars,
             watchVars, chatVars, genVars, pollVars>>
offChat == <<lockVars, buildVars, cacheVars, threadVars, scopeVars, probeVars,
            watchVars, genVars, pollVars>>
offGen == <<lockVars, buildVars, cacheVars, threadVars, scopeVars, probeVars,
           watchVars, agentVars, chatVars, pollVars>>

(***************************************************************************)
(* File-system helpers (POSIX semantics the code relies on).               *)
(***************************************************************************)
\* an inode stays allocated while the path or any descriptor refers to it
InodeLive(i) ==
    \/ lockPath = i
    \/ \E p \in Procs : lock_file_fd[p] = i \/ i \in leaked[p]

FreeInodes == {i \in Inodes : ~InodeLive(i)}

\* the inode a creating open() allocates
NewInode == CHOOSE i \in FreeInodes : \A j \in FreeInodes : i <= j

\* the data of a file is discarded once neither the path nor a descriptor
\* refers to its inode: body as it is once path / fds / lk are in effect
Reclaim(body, path, fds, lk) ==
    [i \in Inodes |->
        IF path = i \/ \E q \in Procs : fds[q] = i \/ i \in lk[q]
        THEN body[i] ELSE 0]

InitLockVars ==
    /\ lockPath = NoIno
    /\ inodeBody = [i \in Inodes |-> 0]
    /\ flockOwner = [i \in Inodes |-> 0]
    /\ lock_file_fd = [p \in Procs |-> NoIno]
    /\ fdLocked = [p \in Procs |-> FALSE]
    /\ leaked = [p \in Procs |-> {}]
    /\ is_locked = [p \in Procs |-> FALSE]
    /\ pc = [p \in Procs |-> "idle"]
    /\ blocking = [p \in Procs |-> FALSE]
    /\ elapsed = [p \in Procs |-> 0]
    /\ attempt = [p \in Procs |-> 0]
    /\ acqResult = [p \in Procs |-> "none"]
    /\ granted = [p \in Procs |-> FALSE]
    /\ releasedOnce = [p \in Procs |-> FALSE]
    /\ lastCall = [p \in Procs |-> "none"]
    /\ acquires = 0

(***************************************************************************)
(* FileLock.acquire, one action per system call.                           *)
(***************************************************************************)
LeakCount == Cardinality({<<q, i>> \in Procs \X Inodes : i \in leaked[q]})

\* acquire(blocking) is called, on an object that holds no descriptor when
\* reentrant is FALSE and on one that already holds the lock when TRUE
AcquireEnter(p, b, reentrant) ==
    /\ pc[p] = "idle"
    /\ reentrant <=> lock_file_fd[p] # NoIno
    /\ reentrant => LeakCount < MaxLeaks
    /\ acquires < MaxAcquires
    /\ acquires' = acquires + 1
    /\ pc' = [pc EXCEPT ![p] = "acq_open"]
    /\ blocking' = [blocking EXCEPT ![p] = b]
    /\ elapsed' = [elapsed EXCEPT ![p] = 0]
    /\ acqResult' = [acqResult EXCEPT ![p] = "none"]
    /\ lastCall' = [lastCall EXCEPT ![p] = "acquire"]
    /\ UNCHANGED <<lockPath, inodeBody, flockOwner, lock_file_fd, fdLocked,
                   leaked, is_locked, attempt, granted>>
    /\ UNCHANGED <<releasedOnce, offLock>>

\* self.lock_file_fd = os.open(path, O_RDWR | O_CREAT | O_TRUNC)
\* An existing file is truncated, a missing one is created; the previous
\* value of self.lock_file_fd is overwritten without being closed.
AcquireOpen(p) ==
    /\ pc[p] = "acq_open"
    /\ LET ino == IF lockPath = NoIno THEN NewInode ELSE lockPath
       IN  /\ lockPath' = ino
           /\ inodeBody' = [inodeBody EXCEPT ![ino] = 0]
           /\ flockOwner' = IF lockPath = NoIno
                            THEN [flockOwner EXCEPT ![ino] = 0]
                            ELSE flockOwner
           /\ leaked' = IF lock_file_fd[p] # NoIno
                        THEN [leaked EXCEPT ![p] = @ \cup {lock_file_fd[p]}]
                        ELSE leaked
           /\ lock_file_fd' = [lock_file_fd EXCEPT ![p] = ino]
           /\ fdLocked' = [fdLocked EXCEPT ![p] = FALSE]
    /\ pc' = [pc EXCEPT ![p] = "acq_flock"]
    /\ UNCHANGED <<is_locked, blocking, elapsed, attempt, acqResult, granted>>
    /\ UNCHANGED <<releasedOnce, lastCall, acquires, offLock>>

\* fcntl.flock(fd, LOCK_EX | LOCK_NB): granted iff no other open file
\* description (of any process, this one included) holds the flock
FlockGranted(p) == flockOwner[lock_file_fd[p]] = 0

AcquireFlock(p) ==
    /\ pc[p] = "acq_flock"
    /\ IF FlockGranted(p)
       THEN /\ flockOwner' = [flockOwner EXCEPT ![lock_file_fd[p]] = p]
            /\ fdLocked' = [fdLocked EXCEPT ![p] = TRUE]
            /\ pc' = [pc EXCEPT ![p] = "acq_write"]
       ELSE /\ pc' = [pc EXCEPT ![p] = "acq_except"]
            /\ UNCHANGED <<flockOwner, fdLocked>>
    /\ UNCHANGED <<lockPath, inodeBody, lock_file_fd, leaked, is_locked,
                   blocking, elapsed, attempt, acqResult, granted>>
    /\ UNCHANGED <<releasedOnce, lastCall, acquires, offLock>>

\* os.write(fd, pid); os.fsync(fd); self.is_locked = True; return True
AcquireWrite(p) ==
    /\ pc[p] = "acq_write"
    /\ inodeBody' = [inodeBody EXCEPT ![lock_file_fd[p]] = p]
    /\ is_locked' = [is_locked EXCEPT ![p] = TRUE]
    /\ acqResult' = [acqResult EXCEPT ![p] = "true"]
    /\ granted' = [granted EXCEPT ![p] = TRUE]
    /\ pc' = [pc EXCEPT ![p] = "idle"]
    /\ blocking' = [blocking EXCEPT ![p] = FALSE]
    /\ elapsed' = [elapsed EXCEPT ![p] = 0]
    /\ UNCHANGED <<lockPath, flockOwner, lock_file_fd, fdLocked, leaked, attempt>>
    /\ UNCHANGED <<releasedOnce, lastCall, acquires, offLock>>

\* an except handler without the timeout test: a blocking acquire() retries
\* for ever
AcquireExceptNoTimeout(p, timedOut) ==
    /\ pc[p] = "acq_except"
    /\ elapsed[p] >= TimeoutPolls => timedOut
    /\ lock_file_fd' = [lock_file_fd EXCEPT ![p] = NoIno]
    /\ fdLocked' = [fdLocked EXCEPT ![p] = FALSE]
    /\ IF ~blocking[p]
       THEN /\ acqResult' = [acqResult EXCEPT ![p] = "false"]
            /\ pc' = [pc EXCEPT ![p] = "idle"]
            /\ blocking' = [blocking EXCEPT ![p] = FALSE]
            /\ elapsed' = [elapsed EXCEPT ![p] = 0]
       ELSE /\ elapsed' = [elapsed EXCEPT ![p] = IF @ < TimeoutPolls THEN @ + 1 ELSE @]
            /\ pc' = [pc EXCEPT ![p] = "acq_open"]
            /\ UNCHANGED <<acqResult, blocking>>
    /\ inodeBody' = Reclaim(inodeBody, lockPath, lock_file_fd', leaked)
    /\ UNCHANGED <<lockPath, flockOwner, leaked, is_locked, attempt, granted>>
    /\ UNCHANGED <<releasedOnce, lastCall, acquires, offLock>>

\* except (IOError, OSError): close the descriptor, then return False when
\* not blocking or when the timeout has elapsed, else sleep(0.1) and retry.
\* timedOut is the outcome of time.time() - start_time >= self.timeout: it
\* is certainly true after TimeoutPolls sleeps and may be true earlier.
AcquireExcept(p, timedOut) ==
    /\ pc[p] = "acq_except"
    /\ elapsed[p] >= TimeoutPolls => timedOut
    /\ lock_file_fd' = [lock_file_fd EXCEPT ![p] = NoIno]
    /\ fdLocked' = [fdLocked EXCEPT ![p] = FALSE]
    /\ IF ~blocking[p] \/ timedOut
       THEN /\ acqResult' = [acqResult EXCEPT ![p] = "false"]
            /\ pc' = [pc EXCEPT ![p] = "idle"]
            /\ blocking' = [blocking EXCEPT ![p] = FALSE]
            /\ elapsed' = [elapsed EXCEPT ![p] = 0]
       ELSE /\ elapsed' = [elapsed EXCEPT ![p] = @ + 1]
            /\ pc' = [pc EXCEPT ![p] = "acq_open"]
            /\ UNCHANGED <<acqResult, blocking>>
    /\ inodeBody' = Reclaim(inodeBody, lockPath, lock_file_fd', leaked)
    /\ UNCHANGED <<lockPath, flockOwner, leaked, is_locked, attempt, granted>>
    /\ UNCHANGED <<releasedOnce, lastCall, acquires, offLock>>

\* acquire(blocking) called by an owner that follows the acquire / release
\* protocol: mkdir(exist_ok), start_time = time.time()
AcquireCall(p, b) == AcquireEnter(p, b, FALSE)

\* acquire(blocking) called again on an object that already holds the lock
ReacquireCall(p, b) == AcquireEnter(p, b, TRUE)

(***************************************************************************)
(* FileLock.release, one action per system call.                           *)
(***************************************************************************)
\* a release() that only resets the flag: it keeps the descriptor, its
\* flock and the marker file
ReleaseCallFlagOnly(p) ==
    /\ pc[p] = "idle"
    /\ granted' = [granted EXCEPT ![p] = FALSE]
    /\ is_locked' = [is_locked EXCEPT ![p] = FALSE]
    /\ releasedOnce' = [releasedOnce EXCEPT ![p] = @ \/ is_locked[p]]
    /\ lastCall' = [lastCall EXCEPT ![p] =
                        IF is_locked[p] THEN "release" ELSE "release_idle"]
    /\ UNCHANGED <<lockPath, inodeBody, flockOwner, lock_file_fd, fdLocked,
                   leaked, pc, blocking, elapsed, attempt, acqResult>>
    /\ UNCHANGED <<acquires, offLock>>

\* a release() without the test of self.is_locked
ReleaseCallUnguarded(p) ==
    /\ pc[p] = "idle"
    /\ granted' = [granted EXCEPT ![p] = FALSE]
    /\ pc' = [pc EXCEPT ![p] =
                  IF lock_file_fd[p] # NoIno THEN "rel_unlock" ELSE "rel_exists"]
    /\ lastCall' = [lastCall EXCEPT ![p] =
                        IF is_locked[p] THEN "release" ELSE "release_idle"]
    /\ UNCHANGED <<lockPath, inodeBody, flockOwner, lock_file_fd, fdLocked,
                   leaked, is_locked, blocking, elapsed, attempt, acqResult>>
    /\ UNCHANGED <<releasedOnce, acquires, offLock>>

\* release() is called: returns at once when not self.is_locked
ReleaseCall(p) ==
    /\ pc[p] = "idle"
    /\ granted' = [granted EXCEPT ![p] = FALSE]
    /\ IF ~is_locked[p]
       THEN UNCHANGED pc
       ELSE pc' = [pc EXCEPT ![p] =
                      IF lock_file_fd[p] # NoIno THEN "rel_unlock" ELSE "rel_exists"]
    /\ lastCall' = [lastCall EXCEPT ![p] =
                        IF is_locked[p] THEN "release" ELSE "release_idle"]
    /\ UNCHANGED <<lockPath, inodeBody, flockOwner, lock_file_fd, fdLocked,
                   leaked, is_locked, blocking, elapsed, attempt, acqResult>>
    /\ UNCHANGED <<releasedOnce, acquires, offLock>>

\* fcntl.flock(self.lock_file_fd, LOCK_UN)
ReleaseUnlock(p) ==
    /\ pc[p] = "rel_unlock"
    /\ flockOwner' = IF fdLocked[p]
                     THEN [flockOwner EXCEPT ![lock_file_fd[p]] = 0]
                     ELSE flockOwner
    /\ fdLocked' = [fdLocked EXCEPT ![p] = FALSE]
    /\ pc' = [pc EXCEPT ![p] = "rel_close"]
    /\ UNCHANGED <<lockPath, inodeBody, lock_file_fd, leaked, is_locked,
                   blocking, elapsed, attempt, acqResult, granted>>
    /\ UNCHANGED <<releasedOnce, lastCall, acquires, offLock>>

\* os.close(self.lock_file_fd); self.lock_file_fd = None
ReleaseClose(p) ==
    /\ pc[p] = "rel_close"
    /\ lock_file_fd' = [lock_file_fd EXCEPT ![p] = NoIno]
    /\ inodeBody' = Reclaim(inodeBody, lockPath, lock_file_fd', leaked)
    /\ flockOwner' = IF fdLocked[p]
                     THEN [flockOwner EXCEPT ![lock_file_fd[p]] = 0]
                     ELSE flockOwner
    /\ fdLocked' = [fdLocked EXCEPT ![p] = FALSE]
    /\ pc' = [pc EXCEPT ![p] = "rel_exists"]
    /\ UNCHANGED <<lockPath, leaked, is_locked,
                   blocking, elapsed, attempt, acqResult, granted>>
    /\ UNCHANGED <<releasedOnce, lastCall, acquires, offLock>>

\* if self.lock_file.exists(): enter the unlink loop, else is_locked = False
ReleaseExists(p) ==
    /\ pc[p] = "rel_exists"
    /\ IF lockPath # NoIno
       THEN /\ pc' = [pc EXCEPT ![p] = "rel_unlink"]
            /\ attempt' = [attempt EXCEPT ![p] = 0]
            /\ UNCHANGED is_locked
       ELSE /\ pc' = [pc EXCEPT ![p] = "idle"]
            /\ is_locked' = [is_locked EXCEPT ![p] = FALSE]
            /\ UNCHANGED attempt
    /\ UNCHANGED <<lockPath, inodeBody, flockOwner, lock_file_fd, fdLocked,
                   leaked, blocking, elapsed, acqResult, granted>>
    /\ releasedOnce' = [releasedOnce EXCEPT ![p] = @ \/ pc'[p] = "idle"]
    /\ UNCHANGED <<lastCall, acquires, offLock>>

\* for attempt in range(3): self.lock_file.unlink(); break / except: sleep.
\* unlink removes whatever inode the path names now; it raises when the
\* path is gone (another process unlinked it first).
UnlinkAttempts == 3

ReleaseUnlink(p) ==
    /\ pc[p] = "rel_unlink"
    /\ IF lockPath # NoIno
       THEN /\ lockPath' = NoIno
            /\ pc' = [pc EXCEPT ![p] = "idle"]
            /\ is_locked' = [is_locked EXCEPT ![p] = FALSE]
            /\ attempt' = [attempt EXCEPT ![p] = 0]
       ELSE /\ UNCHANGED lockPath
            /\ IF attempt[p] < UnlinkAttempts - 1
               THEN /\ attempt' = [attempt EXCEPT ![p] = @ + 1]
                    /\ UNCHANGED <<pc, is_locked>>
               ELSE /\ pc' = [pc EXCEPT ![p] = "idle"]
                    /\ is_locked' = [is_locked EXCEPT ![p] = FALSE]
                    /\ attempt' = [attempt EXCEPT ![p] = 0]
    /\ inodeBody' = Reclaim(inodeBody, lockPath', lock_file_fd, leaked)
    /\ UNCHANGED <<flockOwner, lock_file_fd, fdLocked, leaked,
                   blocking, elapsed, acqResult, granted>>
    /\ releasedOnce' = [releasedOnce EXCEPT ![p] = @ \/ pc'[p] = "idle"]
    /\ UNCHANGED <<lastCall, acquires, offLock>>

NextLock ==
    \E p \in Procs :
        \/ \E b \in BOOLEAN : AcquireCall(p, b)
        \/ AcquireOpen(p)
        \/ AcquireFlock(p)
        \/ AcquireWrite(p)
        \/ \E t \in BOOLEAN : AcquireExcept(p, t)
        \/ ReleaseCall(p)
        \/ ReleaseUnlock(p)
        \/ ReleaseClose(p)
        \/ ReleaseExists(p)
        \/ ReleaseUnlink(p)

\* lastOp before any operation
NoOp == [op |-> "init", path |-> "", content |-> <<>>, ret |-> <<>>,
         evicted |-> <<>>, afterPut |-> FALSE]

\* number of threads that share one DocumentCache
NumThreads == 2
Threads == 1..NumThreads

NoKey == [md5 |-> ""]

\* the frame of a thread that runs no cache method; err is the exception
\* its last method raised ("none" when it returned)
IdleFrame(err) ==
    [pc |-> "idle", path |-> "", content |-> <<>>, key |-> NoKey, size |-> 0,
     rmkey |-> NoKey, cont |-> "", popped |-> 0, tmp |-> 0, mtime |-> 0,
     err |-> err]

QuietThreads ==
    /\ th = [t \in Threads |-> IdleFrame("none")]
    /\ calls = [t \in Threads |-> 0]

\* no with-statement has been entered
QuietScope == scope = [p \in Procs |-> "none"]

\* the probe has not been called
QuietProbe ==
    /\ ppc = "idle"
    /\ probePid = 0
    /\ probeResult = "none"

\* the files of the watched directory: two documents, one of them with an
\* upper-case suffix, and one file that is no document
WFiles == {[stem |-> "a", suffix |-> ".txt"],
           [stem |-> "b", suffix |-> ".MD"],
           [stem |-> "c", suffix |-> ".py"]}

\* an Optional: None, or the content
None == <<>>
Some(content) == <<content>>

NoChanges == [added |-> {}, modified |-> {}, deleted |-> {}]

\* a DocumentWatcher on an empty directory that is left alone
QuietWatch ==
    /\ wmtime = [f \in WFiles |-> 0]
    /\ wdenied = {}
    /\ last_snapshot = [f \in WFiles |-> 0]
    /\ changes = NoChanges
    /\ appeared = {}
    /\ vanished = {}
    /\ changedSince = FALSE
    /\ reported = {}
    /\ now = 0
    /\ last_check_time = 0
    /\ wpc = "idle"
    /\ verdict = FALSE
    /\ warning = <<>>
    /\ detected = NoChanges
    /\ deferral = "none"

\* no request has failed
NotFailed == [kind |-> "none", accumulated |-> <<>>]

\* the dictionary ask() has not returned yet
NoResult == [state |-> "Iterating", answer |-> <<>>, steps |-> <<>>]

\* a DocumentExplorer() whose ask() is not called
QuietAgent ==
    /\ apc = "idle"
    /\ max_iterations = 10
    /\ iteration = 0
    /\ assistant_message = <<>>
    /\ messages = <<>>
    /\ action_line = <<>>
    /\ input_line = <<>>
    /\ steps = <<>>
    /\ conversation_history = <<>>
    /\ result = NoResult
    /\ requests = 0
    /\ failed = NotFailed
    /\ streamed = <<>>
    /\ chunk_count = 0
    /\ dispatches = 0

\* no turn has ended
NoTurn == [kind |-> "none", swallowed |-> 0, kept |-> TRUE]

\* no chat session
QuietChat ==
    /\ cpc = "input"
    /\ interrupt_count = 0
    /\ pressed = 0
    /\ swallowed = 0
    /\ turns = 0
    /\ histBefore = <<>>
    /\ lastTurn = NoTurn

\* how a call that has not ended is recorded
NotEnded == [kind |-> "none", text |-> <<>>]

\* no build of the knowledge map and no explorer
QuietGen ==
    /\ disk = <<>>
    /\ map_file = <<>>
    /\ gpc = "idle"
    /\ fast_mode = FALSE
    /\ files_to_process = <<>>
    /\ idx = 0
    /\ document_entries = <<>>
    /\ analysed = <<>>
    /\ ended = NotEnded
    /\ epc = "idle"
    /\ knowledge_map = <<>>
    /\ readAs = <<>>
    /\ atCall = {}

QuietRest ==
    /\ QuietScope /\ QuietProbe /\ QuietWatch /\ QuietAgent /\ QuietChat
    /\ QuietGen

\* a fresh DocumentCache() that is left alone
QuietCache ==
    /\ fileMtime = [f \in {"/d/a.txt", "/d/b.txt", "/d/c.txt"} |-> 1]
    /\ max_size_bytes = 100 * 1024 * 1024
    /\ max_items = 50
    /\ current_size = 0
    /\ cache = <<>>
    /\ hits = 0
    /\ misses = 0
    /\ lastOp = NoOp
    /\ recency = <<>>

\* the index file is left alone while the lock is exercised
QuietBuild ==
    /\ mapExists = FALSE
    /\ mapData = <<>>
    /\ bpc = [p \in Procs |-> "idle"]
    /\ bver = [p \in Procs |-> 0]
    /\ bpos = [p \in Procs |-> 0]
    /\ nextVer = 1
    /\ rpc = "idle"
    /\ loaded = NotLoaded

InitLock == InitLockVars /\ QuietBuild /\ QuietCache /\ QuietThreads /\ QuietRest

SpecLock == InitLock /\ [][NextLock]_vars

\* number of acquire() calls in the behaviours checked for termination
FairAcquires == 2

\* acquire(blocking) called within that budget
BudgetedAcquireCall(p, b) == acquires < FairAcquires /\ AcquireCall(p, b)

\* a process that is inside acquire() keeps running: the loop of acquire()
\* has no blocking call but the bounded sleep
AcquireStep(p) ==
    \/ AcquireOpen(p)
    \/ AcquireFlock(p)
    \/ AcquireWrite(p)
    \/ \E t \in BOOLEAN : AcquireExcept(p, t)

NextLockFair ==
    \E p \in Procs :
        \/ \E b \in BOOLEAN : BudgetedAcquireCall(p, b)
        \/ AcquireOpen(p)
        \/ AcquireFlock(p)
        \/ AcquireWrite(p)
        \/ \E t \in BOOLEAN : AcquireExcept(p, t)
        \/ ReleaseCall(p)
        \/ ReleaseUnlock(p)
        \/ ReleaseClose(p)
        \/ ReleaseExists(p)
        \/ ReleaseUnlink(p)

SpecLockFair ==
    InitLock /\ [][NextLockFair]_vars /\ \A p \in Procs : WF_vars(AcquireStep(p))

\* the same processes, which may also call acquire() while holding the lock
NextLockReentrant ==
    \/ NextLock
    \/ \E p \in Procs, b \in BOOLEAN : ReacquireCall(p, b)

SpecLockReentrant == InitLock /\ [][NextLockReentrant]_vars

(***************************************************************************)
(* FileLock / KnowledgeMapLock as a context manager.  __enter__ calls      *)
(* self.acquire() (blocking, the default) and raises TimeoutError when it  *)
(* returns False; __exit__ calls self.release() whatever ended the block.  *)
(* KnowledgeMapLock.__enter__ / __exit__ delegate to the FileLock.         *)
(***************************************************************************)
\* "with lock:" is reached: __enter__ calls self.acquire()
ScopeEnter(p) ==
    /\ scope[p] \in {"none", "raised", "left", "left_exc"}
    /\ pc[p] = "idle"
    /\ lock_file_fd[p] = NoIno
    /\ acquires < MaxAcquires
    /\ acquires' = acquires + 1
    /\ scope' = [scope EXCEPT ![p] = "enter"]
    /\ pc' = [pc EXCEPT ![p] = "acq_open"]
    /\ blocking' = [blocking EXCEPT ![p] = TRUE]
    /\ elapsed' = [elapsed EXCEPT ![p] = 0]
    /\ acqResult' = [acqResult EXCEPT ![p] = "none"]
    /\ lastCall' = [lastCall EXCEPT ![p] = "acquire"]
    /\ UNCHANGED <<lockPath, inodeBody, flockOwner, lock_file_fd, fdLocked,
                   leaked, is_locked, attempt, granted, releasedOnce>>
    /\ UNCHANGED offScope

\* acquire() has returned inside __enter__: raise TimeoutError when it
\* returned False, else return self and start the block
ScopeEntered(p) ==
    /\ scope[p] = "enter"
    /\ pc[p] = "idle"
    /\ scope' = [scope EXCEPT ![p] =
                    IF acqResult[p] = "true" THEN "body" ELSE "raised"]
    /\ UNCHANGED <<lockVars, offScope>>

\* an __exit__ that releases only when the block ended normally
ScopeExitSkipOnError(p, exc) ==
    /\ scope[p] = "body"
    /\ pc[p] = "idle"
    /\ scope' = [scope EXCEPT ![p] = IF exc THEN "exit_exc" ELSE "exit"]
    /\ IF exc
       THEN UNCHANGED <<granted, pc, lastCall>>
       ELSE /\ granted' = [granted EXCEPT ![p] = FALSE]
            /\ pc' = [pc EXCEPT ![p] =
                   IF ~is_locked[p] THEN "idle"
                   ELSE IF lock_file_fd[p] # NoIno THEN "rel_unlock" ELSE "rel_exists"]
            /\ lastCall' = [lastCall EXCEPT ![p] =
                               IF is_locked[p] THEN "release" ELSE "release_idle"]
    /\ UNCHANGED <<lockPath, inodeBody, flockOwner, lock_file_fd, fdLocked,
                   leaked, is_locked, blocking, elapsed, attempt, acqResult,
                   releasedOnce, acquires>>
    /\ UNCHANGED offScope

\* the block ends, normally or (exc) by an exception: __exit__ calls
\* self.release()
ScopeExit(p, exc) ==
    /\ scope[p] = "body"
    /\ pc[p] = "idle"
    /\ scope' = [scope EXCEPT ![p] = IF exc THEN "exit_exc" ELSE "exit"]
    /\ granted' = [granted EXCEPT ![p] = FALSE]
    /\ pc' = [pc EXCEPT ![p] =
           IF ~is_locked[p] THEN "idle"
           ELSE IF lock_file_fd[p] # NoIno THEN "rel_unlock" ELSE "rel_exists"]
    /\ lastCall' = [lastCall EXCEPT ![p] =
                       IF is_locked[p] THEN "release" ELSE "release_idle"]
    /\ UNCHANGED <<lockPath, inodeBody, flockOwner, lock_file_fd, fdLocked,
                   leaked, is_locked, blocking, elapsed, attempt, acqResult,
                   releasedOnce, acquires>>
    /\ UNCHANGED offScope

\* release() has returned inside __exit__: __exit__ returns None, the
\* with-statement is left (an exception of the block propagates)
ScopeLeft(p) ==
    /\ scope[p] \in {"exit", "exit_exc"}
    /\ pc[p] = "idle"
    /\ scope' = [scope EXCEPT ![p] = IF @ = "exit_exc" THEN "left_exc" ELSE "left"]
    /\ UNCHANGED <<lockVars, offScope>>

NextScope ==
    \E p \in Procs :
        \/ ScopeEnter(p)
        \/ ScopeEntered(p)
        \/ \E exc \in BOOLEAN : ScopeExit(p, exc)
        \/ ScopeLeft(p)
        \/ AcquireOpen(p)
        \/ AcquireFlock(p)
        \/ AcquireWrite(p)
        \/ \E t \in BOOLEAN : AcquireExcept(p, t)
        \/ ReleaseUnlock(p)
        \/ ReleaseClose(p)
        \/ ReleaseExists(p)
        \/ ReleaseUnlink(p)

SpecScope == InitLock /\ [][NextScope]_vars

(***************************************************************************)
(* A process that dies without release(), and the liveness probe           *)
(* KnowledgeMapLock.is_locked_by_another_process (POSIX branch), called    *)
(* by one more process that only probes.                                   *)
(***************************************************************************)
\* the process is killed: the kernel closes its descriptors, which drops
\* their flocks; the marker file stays as it is
Crash(p) ==
    /\ pc[p] # "dead"
    /\ pc' = [pc EXCEPT ![p] = "dead"]
    /\ flockOwner' = [i \in Inodes |-> IF flockOwner[i] = p THEN 0 ELSE flockOwner[i]]
    /\ lock_file_fd' = [lock_file_fd EXCEPT ![p] = NoIno]
    /\ fdLocked' = [fdLocked EXCEPT ![p] = FALSE]
    /\ leaked' = [leaked EXCEPT ![p] = {}]
    /\ inodeBody' = Reclaim(inodeBody, lockPath, lock_file_fd', leaked')
    /\ is_locked' = [is_locked EXCEPT ![p] = FALSE]
    /\ blocking' = [blocking EXCEPT ![p] = FALSE]
    /\ elapsed' = [elapsed EXCEPT ![p] = 0]
    /\ attempt' = [attempt EXCEPT ![p] = 0]
    /\ acqResult' = [acqResult EXCEPT ![p] = "none"]
    /\ releasedOnce' = [releasedOnce EXCEPT ![p] = FALSE]
    /\ lastCall' = [lastCall EXCEPT ![p] = "none"]
    /\ UNCHANGED <<lockPath, granted, acquires, offLock>>

\* the processes that run under another user id than the prober: os.kill
\* on them raises PermissionError
OtherUsers == {p \in Procs : p = NumProcs}

\* is_locked_by_another_process() is called: if not lock_file.exists():
\* return False
ProbeCall ==
    /\ ppc = "idle"
    /\ IF lockPath = NoIno
       THEN /\ probeResult' = "false"
            /\ UNCHANGED ppc
       ELSE /\ probeResult' = "none"
            /\ ppc' = "open"
    /\ probePid' = 0
    /\ UNCHANGED offProbe

\* with open(lock_file, 'r') as f: lock_pid = int(f.read().strip())
\* FileNotFoundError when the file is gone, ValueError when it is empty:
\* the bare except returns True
ProbeRead ==
    /\ ppc = "open"
    /\ IF lockPath = NoIno \/ inodeBody[lockPath] = 0
       THEN /\ probeResult' = "true"
            /\ ppc' = "idle"
            /\ UNCHANGED probePid
       ELSE /\ probePid' = inodeBody[lockPath]
            /\ ppc' = "kill"
            /\ UNCHANGED probeResult
    /\ UNCHANGED offProbe

\* try: os.kill(lock_pid, 0); return True / except OSError: return False
\* os.kill raises ProcessLookupError for a process that does not exist and
\* PermissionError for one of another user, both of them OSError
ProbeKill ==
    /\ ppc = "kill"
    /\ probeResult' = IF pc[probePid] = "dead" \/ probePid \in OtherUsers
                      THEN "false" ELSE "true"
    /\ ppc' = "idle"
    /\ probePid' = 0
    /\ UNCHANGED offProbe

NextCrash ==
    \/ NextLock
    \/ \E p \in Procs : Crash(p)
    \/ ProbeCall
    \/ ProbeRead
    \/ ProbeKill

SpecCrash == InitLock /\ [][NextCrash]_vars

(***************************************************************************)
(* utils/file_watcher.py: DocumentWatcher.                                 *)
(***************************************************************************)
\* largest modification time of the model
MaxMtime == 2

\* str.lower() on the suffixes of the model
Lower(suffix) == IF suffix = ".MD" THEN ".md" ELSE suffix

supported_exts == {".pdf", ".docx", ".doc", ".txt", ".md", ".markdown"}

\* _take_snapshot: the files rglob yields that are files with a supported
\* suffix and whose stat() succeeds, each with its st_mtime (0: no key)
TakeSnapshot ==
    [f \in WFiles |->
        IF wmtime[f] # 0 /\ Lower(f.suffix) \in supported_exts /\ f \notin wdenied
        THEN wmtime[f] ELSE 0]

SnapshotKeys(snap) == {f \in WFiles : snap[f] # 0}

\* the files a scan would record now
Visible == SnapshotKeys(TakeSnapshot)

\* a check_for_changes that does not store the new scan
CheckForChangesKeepsSnapshot ==
    /\ LET current_snapshot == TakeSnapshot
           cur == SnapshotKeys(current_snapshot)
           last == SnapshotKeys(last_snapshot)
       IN  /\ changes' = [added |-> cur \ last,
                          modified |-> {f \in cur \cap last :
                                           current_snapshot[f] # last_snapshot[f]},
                          deleted |-> last \ cur]
           /\ UNCHANGED last_snapshot
    /\ appeared' = {}
    /\ vanished' = {}
    /\ changedSince' = FALSE
    /\ reported' = reported \cup changes'.added
    /\ last_check_time' = now
    /\ UNCHANGED <<wmtime, wdenied, now, offWatch>>

\* a check_for_changes that takes only a newer mtime for a modification
CheckForChangesNewerOnly ==
    /\ LET current_snapshot == TakeSnapshot
           cur == SnapshotKeys(current_snapshot)
           last == SnapshotKeys(last_snapshot)
       IN  /\ changes' = [added |-> cur \ last,
                          modified |-> {f \in cur \cap last :
                                           current_snapshot[f] > last_snapshot[f]},
                          deleted |-> last \ cur]
           /\ last_snapshot' = current_snapshot
    /\ appeared' = {}
    /\ vanished' = {}
    /\ changedSince' = FALSE
    /\ reported' = reported \cup changes'.added
    /\ last_check_time' = now
    /\ UNCHANGED <<wmtime, wdenied, now, offWatch>>

\* check_for_changes(): scan, diff against self._last_snapshot, store the
\* scan, return the three sets
CheckForChanges ==
    /\ LET current_snapshot == TakeSnapshot
           cur == SnapshotKeys(current_snapshot)
           last == SnapshotKeys(last_snapshot)
       IN  /\ changes' = [added |-> cur \ last,
                          modified |-> {f \in cur \cap last :
                                           current_snapshot[f] # last_snapshot[f]},
                          deleted |-> last \ cur]
           /\ last_snapshot' = current_snapshot
    /\ appeared' = {}
    /\ vanished' = {}
    /\ changedSince' = FALSE
    /\ reported' = reported \cup changes'.added
    /\ last_check_time' = now
    /\ UNCHANGED <<wmtime, wdenied, now, offWatch>>

\* the history of a change of the directory: vis is the set of visible
\* files once the change is made
Record(vis) ==
    /\ appeared' = (appeared \cap vis) \cup ((vis \ Visible) \ vanished)
    /\ vanished' = (vanished \ vis) \cup ((Visible \ vis) \ appeared)
    /\ changedSince' = TRUE
    /\ reported' = reported \cap vis

VisibleIn(mt, den) ==
    {f \in WFiles : mt[f] # 0 /\ Lower(f.suffix) \in supported_exts /\ f \notin den}

\* the environment creates or rewrites a file
WriteFile(f, m) ==
    /\ wmtime[f] # m
    /\ wmtime' = [wmtime EXCEPT ![f] = m]
    /\ Record(VisibleIn(wmtime', wdenied))
    /\ UNCHANGED <<wdenied, last_snapshot, changes, pollVars, offWatch>>

\* the environment deletes a file
DeleteFile(f) ==
    /\ wmtime[f] # 0
    /\ wmtime' = [wmtime EXCEPT ![f] = 0]
    /\ wdenied' = wdenied \ {f}
    /\ Record(VisibleIn(wmtime', wdenied'))
    /\ UNCHANGED <<last_snapshot, changes, pollVars, offWatch>>

\* the environment makes a file inaccessible to stat(), or accessible again
ChmodFile(f) ==
    /\ wmtime[f] # 0
    /\ wdenied' = IF f \in wdenied THEN wdenied \ {f} ELSE wdenied \cup {f}
    /\ Record(VisibleIn(wmtime, wdenied'))
    /\ UNCHANGED <<wmtime, last_snapshot, changes, pollVars, offWatch>>

\* how a check moves the history of the early returns
Reporting == deferral' = IF deferral = "pending" THEN "reported" ELSE "none"

\* check_for_changes() called for its own sake
CheckCall ==
    /\ wpc = "idle"
    /\ CheckForChanges
    /\ Reporting
    /\ UNCHANGED <<wpc, verdict, warning, detected>>

NextWatch ==
    \/ CheckCall
    \/ \E f \in WFiles, m \in 1..MaxMtime : WriteFile(f, m)
    \/ \E f \in WFiles : DeleteFile(f)
    \/ \E f \in WFiles : ChmodFile(f)

\* DocumentWatcher(directory) constructed on any directory: __init__ stores
\* the first scan
InitWatch ==
    /\ InitLockVars /\ QuietBuild /\ QuietCache /\ QuietThreads
    /\ QuietScope /\ QuietProbe /\ QuietAgent /\ QuietChat /\ QuietGen
    /\ wmtime \in [WFiles -> 0..MaxMtime]
    /\ wdenied = {}
    /\ last_snapshot = TakeSnapshot
    /\ changes = NoChanges
    /\ appeared = {}
    /\ vanished = {}
    /\ changedSince = FALSE
    /\ reported = {}
    /\ now = 0
    /\ last_check_time = 0
    /\ wpc = "idle"
    /\ verdict = FALSE
    /\ warning = None
    /\ detected = NoChanges
    /\ deferral = "none"

SpecWatch == InitWatch /\ [][NextWatch]_vars

\* ---- the callers of the watcher, and the clock ----

\* the end of the clock of the model, and threshold_minutes (5 in the
\* source), in minutes
MaxNow == 3
threshold_minutes == 2

\* a minute passes
Tick ==
    /\ now < MaxNow
    /\ now' = now + 1
    /\ UNCHANGED <<wmtime, wdenied, last_snapshot, changes, appeared, vanished,
                   changedSince, reported, last_check_time, callerVars,
                   offWatch>>

\* bool(changes['added'] or changes['modified'] or changes['deleted'])
AnyChange(ch) == ch.added # {} \/ ch.modified # {} \/ ch.deleted # {}

\* should_rebuild_map() is called
ShouldRebuildMapCall ==
    /\ wpc = "idle"
    /\ wpc' = "timing"
    /\ UNCHANGED <<wmtime, wdenied, last_snapshot, changes, appeared, vanished,
                   changedSince, reported, now, last_check_time, verdict,
                   warning, detected, deferral, offWatch>>

\* a variant of should_rebuild_map that counts its early return as a check
ShouldRebuildMapStamps ==
    /\ wpc = "timing"
    /\ wpc' = "idle"
    /\ IF now - last_check_time < threshold_minutes
       THEN /\ verdict' = FALSE
            /\ last_check_time' = now
            /\ deferral' = IF changedSince THEN "pending" ELSE deferral
            /\ UNCHANGED <<wmtime, wdenied, last_snapshot, changes, appeared,
                           vanished, changedSince, reported, now, offWatch>>
       ELSE /\ CheckForChanges
            /\ Reporting
            /\ verdict' = AnyChange(changes')
    /\ UNCHANGED <<warning, detected>>

\* should_rebuild_map (lines 112-127): False before the threshold has
\* passed since the last check, else has_changes()
ShouldRebuildMap ==
    /\ wpc = "timing"
    /\ wpc' = "idle"
    /\ IF now - last_check_time < threshold_minutes
       THEN /\ verdict' = FALSE
            /\ deferral' = IF changedSince THEN "pending" ELSE deferral
            /\ UNCHANGED <<wmtime, wdenied, last_snapshot, changes, appeared,
                           vanished, changedSince, reported, now,
                           last_check_time, offWatch>>
       ELSE /\ CheckForChanges
            /\ Reporting
            /\ verdict' = AnyChange(changes')
    /\ UNCHANGED <<warning, detected>>

\* list(paths)[:3]: at most three of the paths
Shown(paths) ==
    IF Cardinality(paths) <= 3 THEN paths
    ELSE CHOOSE some \in SUBSET paths : Cardinality(some) = 3

\* get_change_summary (lines 76-110), after its check: the fixed text when
\* the three sets are empty, else the counts and the names shown
ChangeSummary(ch) ==
    [text |-> IF AnyChange(ch) THEN "changes" ELSE "No changes detected",
     added |-> Shown(ch.added),
     modified |-> Shown(ch.modified),
     deleted |-> Shown(ch.deleted)]

\* check_for_updates (explorer.py 554-563), up to the return of
\* has_changes(): None is returned when it is false
UpdatesHasChanges ==
    /\ wpc = "idle"
    /\ CheckForChanges
    /\ Reporting
    /\ IF AnyChange(changes')
       THEN wpc' = "summary" /\ detected' = changes' /\ UNCHANGED warning
       ELSE wpc' = "idle" /\ warning' = None /\ UNCHANGED detected
    /\ UNCHANGED verdict

\* check_for_updates, line 561-562: get_change_summary() makes a check of
\* its own, and the warning holds its summary
UpdatesSummary ==
    /\ wpc = "summary"
    /\ wpc' = "idle"
    /\ CheckForChanges
    /\ Reporting
    /\ warning' = Some(ChangeSummary(changes'))
    /\ UNCHANGED <<verdict, detected>>

\* the one document the directory of the rate-limited watcher holds
Polled == [stem |-> "a", suffix |-> ".txt"]

NextPoll ==
    \/ CheckCall
    \/ Tick
    \/ ShouldRebuildMapCall
    \/ ShouldRebuildMap
    \/ \E m \in 1..MaxMtime : WriteFile(Polled, m)
    \/ DeleteFile(Polled)

\* a watcher constructed on a directory with that document or without it
InitPoll == InitWatch /\ \A f \in WFiles \ {Polled} : wmtime[f] = 0

SpecPoll == InitPoll /\ [][NextPoll]_vars

NextUpdates ==
    \/ UpdatesHasChanges
    \/ UpdatesSummary
    \/ \E f \in WFiles, m \in 1..MaxMtime : WriteFile(f, m)
    \/ \E f \in WFiles : DeleteFile(f)

SpecUpdates == InitWatch /\ [][NextUpdates]_vars

(***************************************************************************)
(* generate_knowledge_map and load_knowledge_map on one directory.         *)
(* The index is serialised by yaml.dump into a buffered text file: the     *)
(* file is truncated by open(path, 'w'), receives one chunk each time the  *)
(* I/O buffer fills and the rest when the with-block closes it.            *)
(***************************************************************************)
\* number of buffer-sized chunks a serialised index consists of
NumChunks == 2
\* number of builds that may be started
MaxBuilds == 3

Chunk(v, k) == [ver |-> v, k |-> k]
\* bytes of a hole left by a write past the end of the file
Hole == [ver |-> -1, k |-> 0]

\* the complete serialised index of build v
FullIndex(v) == [k \in 1..NumChunks |-> Chunk(v, k)]

\* pwrite semantics: chunk c stored at chunk offset off (0-based) of data
WriteAt(data, off, c) ==
    [i \in 1..(IF off + 1 > Len(data) THEN off + 1 ELSE Len(data)) |->
        IF i = off + 1 THEN c
        ELSE IF i <= Len(data) THEN data[i] ELSE Hole]

InitBuildVars ==
    /\ mapExists \in BOOLEAN
    /\ mapData = IF mapExists THEN FullIndex(0) ELSE <<>>
    /\ bpc = [p \in Procs |-> "idle"]
    /\ bver = [p \in Procs |-> 0]
    /\ bpos = [p \in Procs |-> 0]
    /\ nextVer = 1
    /\ rpc = "idle"
    /\ loaded = NotLoaded

\* generate_knowledge_map is called; list_docs and the rglob scan either find
\* no document (early return, nothing written) or the per-file loop runs.
\* No KnowledgeMapLock is taken anywhere on this path.
BuildStart(p, hasDocs) ==
    /\ bpc[p] = "idle"
    /\ nextVer <= MaxBuilds
    /\ IF hasDocs
       THEN /\ bpc' = [bpc EXCEPT ![p] = "scan"]
            /\ bver' = [bver EXCEPT ![p] = nextVer]
            /\ nextVer' = nextVer + 1
       ELSE UNCHANGED <<bpc, bver, nextVer>>
    /\ UNCHANGED <<mapExists, mapData, bpos, rpc, loaded>>
    /\ UNCHANGED offBuild

\* the per-file loop is over: open(output_path, 'w') creates or truncates
BuildOpen(p) ==
    /\ bpc[p] = "scan"
    /\ mapExists' = TRUE
    /\ mapData' = <<>>
    /\ bpos' = [bpos EXCEPT ![p] = 0]
    /\ bpc' = [bpc EXCEPT ![p] = "write"]
    /\ UNCHANGED <<bver, nextVer, rpc, loaded>>
    /\ UNCHANGED offBuild

\* yaml.dump fills the buffer: one chunk is written at the descriptor's offset
BuildWrite(p) ==
    /\ bpc[p] = "write"
    /\ bpos[p] < NumChunks - 1
    /\ mapData' = WriteAt(mapData, bpos[p], Chunk(bver[p], bpos[p] + 1))
    /\ bpos' = [bpos EXCEPT ![p] = @ + 1]
    /\ UNCHANGED <<mapExists, bpc, bver, nextVer, rpc, loaded>>
    /\ UNCHANGED offBuild

\* the with-block ends: the rest of the buffer is flushed, the file closed,
\* and generate_knowledge_map returns
BuildClose(p) ==
    /\ bpc[p] = "write"
    /\ bpos[p] = NumChunks - 1
    /\ mapData' = WriteAt(mapData, bpos[p], Chunk(bver[p], bpos[p] + 1))
    /\ bpos' = [bpos EXCEPT ![p] = 0]
    /\ bpc' = [bpc EXCEPT ![p] = "idle"]
    /\ UNCHANGED <<mapExists, bver, nextVer, rpc, loaded>>
    /\ UNCHANGED offBuild

\* load_knowledge_map: if not map_path.exists(): return None
LoadExists ==
    /\ rpc = "idle"
    /\ IF mapExists
       THEN /\ rpc' = "read"
            /\ loaded' = NotLoaded
       ELSE /\ rpc' = "idle"
            /\ loaded' = Absent
    /\ UNCHANGED <<mapExists, mapData, bpc, bver, bpos, nextVer>>
    /\ UNCHANGED offBuild

\* what yaml.safe_load makes of the file content: an empty stream is None
SafeLoad(data) == IF data = <<>> THEN Absent ELSE [kind |-> "data", data |-> data]

\* with open(map_path, 'r') as f: return yaml.safe_load(f)
LoadRead ==
    /\ rpc = "read"
    /\ loaded' = SafeLoad(mapData)
    /\ rpc' = "idle"
    /\ UNCHANGED <<mapExists, mapData, bpc, bver, bpos, nextVer>>
    /\ UNCHANGED offBuild

NextBuild ==
    \/ \E p \in Procs, d \in BOOLEAN : BuildStart(p, d)
    \/ \E p \in Procs : BuildOpen(p)
    \/ \E p \in Procs : BuildWrite(p)
    \/ \E p \in Procs : BuildClose(p)
    \/ LoadExists
    \/ LoadRead

InitBuild == InitLockVars /\ InitBuildVars /\ QuietCache /\ QuietThreads /\ QuietRest

SpecBuild == InitBuild /\ [][NextBuild]_vars

\* C2: at most one build per directory is in its write phase (between
\* opening the index file for writing and closing it) at any time.
C2_OneWriter == Cardinality({p \in Procs : bpc[p] = "write"}) <= 1

\* a complete index: every chunk of one build, in order
IsComplete(data) == \E v \in 0..MaxBuilds : data = FullIndex(v)

\* C3: a load never observes a half-written index: it returns None or one
\* complete index.
C3_NoTornRead == loaded.kind = "data" => IsComplete(loaded.data)

(***************************************************************************)
(* DocumentCache, each method as one atomic operation of a single caller.  *)
(***************************************************************************)
\* largest max_size_mb a cache of the model is constructed with
MaxSizeMb == 2
\* largest max_items a cache of the model is constructed with
MaxItemsArg == 2
\* number of get calls on one cache between two clear() calls
MaxGets == 1

\* 1024 * 1024
MiB == 1048576

\* the documents, by resolved absolute path
Files == {"/d/a.txt", "/d/b.txt", "/d/c.txt"}

\* the st_mtime values of the model: 0 is what _get_file_mtime returns for a
\* deleted or unreadable file
Mtimes == {0, 1, 2}

\* the documents the environment rewrites, restores or deletes
Volatile == {"/d/a.txt"}

\* the file_path strings callers pass (working directory /d)
PathStrs == {"a.txt", "./a.txt", "b.txt", "c.txt"}

\* str(Path(file_path).resolve())
Resolve(path) ==
    CASE path = "a.txt"   -> "/d/a.txt"
      [] path = "./a.txt" -> "/d/a.txt"
      [] path = "b.txt"   -> "/d/b.txt"
      [] path = "c.txt"   -> "/d/c.txt"

\* _get_cache_key: the MD5 digest of the resolved path (taken as collision
\* free on the paths of the model)
GetCacheKey(path) == [md5 |-> Resolve(path)]

\* _get_file_mtime: Path(file_path).stat().st_mtime, 0.0 when stat raises
GetFileMtime(path) == fileMtime[Resolve(path)]

\* A document text is a sequence of runs [cp, n]: n times the character
\* with code point cp.
Run(cp, n) == [cp |-> cp, n |-> n]

\* number of bytes of one character in UTF-8
Utf8Bytes(cp) ==
    IF cp < 128 THEN 1 ELSE IF cp < 2048 THEN 2 ELSE IF cp < 65536 THEN 3 ELSE 4

RECURSIVE Utf8Len(_)
\* len(content.encode('utf-8'))
Utf8Len(content) ==
    IF content = <<>> THEN 0
    ELSE Head(content).n * Utf8Bytes(Head(content).cp) + Utf8Len(Tail(content))

\* the texts callers put: the empty text, 1 MiB made of half as many
\* two-byte characters, and one byte more than the largest byte bound
Contents ==
    { <<>>,
      <<Run(233, MiB \div 2)>>,
      <<Run(97, MaxSizeMb * MiB), Run(10, 1)>> }

RECURSIVE TotalSize(_)
\* sum of the stored sizes of the resident entries
TotalSize(c) == IF c = <<>> THEN 0 ELSE Head(c).size + TotalSize(Tail(c))

Keys(c) == {c[i].key : i \in 1..Len(c)}

EntryOf(c, key) == c[CHOOSE i \in 1..Len(c) : c[i].key = key]

\* the OrderedDict without key (dict.pop)
Without(c, key) == SelectSeq(c, LAMBDA e : e.key # key)

\* a get hit that leaves the order of the entries alone
MoveToEndNoop(c, key) == c

\* OrderedDict.move_to_end(key)
MoveToEnd(c, key) == Append(Without(c, key), EntryOf(c, key))

\* _remove_entry on the pair (cache, current_size)
RemoveEntry(st, key) ==
    IF key \in Keys(st.cache)
    THEN [cache |-> Without(st.cache, key),
          current_size |-> st.current_size - EntryOf(st.cache, key).size]
    ELSE st

\* _evict_oldest: next(iter(self.cache)) is the first key
EvictOldest(st) ==
    IF st.cache # <<>> THEN RemoveEntry(st, Head(st.cache).key) ELSE st

\* the loop condition with the item count compared by > instead of >=
MustEvictOffByOne(st, content_size) ==
    /\ \/ st.current_size + content_size > max_size_bytes
       \/ Len(st.cache) > max_items
    /\ st.cache # <<>>

\* the condition of put's while loop
MustEvict(st, content_size) ==
    /\ \/ st.current_size + content_size > max_size_bytes
       \/ Len(st.cache) >= max_items
    /\ st.cache # <<>>

RECURSIVE EvictLoop(_, _)
\* put's while loop
EvictLoop(st, content_size) ==
    IF MustEvict(st, content_size)
    THEN EvictLoop(EvictOldest(st), content_size)
    ELSE st

\* the entry put stores ('cached_at', which nothing reads, is left out)
NewEntry(path, content) ==
    [key |-> GetCacheKey(path), content |-> content, size |-> Utf8Len(content),
     mtime |-> GetFileMtime(path), path |-> path]

\* a validity test that also drops an entry whose file is unchanged
IsModifiedOrSame(current_mtime, entry) == current_mtime >= entry.mtime

\* get's validity test: the entry is dropped when the file is newer
IsModified(current_mtime, entry) == current_mtime > entry.mtime

\* history: key becomes the most recently used one
Used(r, key) == Append(SelectSeq(r, LAMBDA k : k # key), key)

\* history: the record of an operation; afterPut tells that the operation
\* before it was a put
Op(op, path, content, ret, evicted) ==
    [op |-> op, path |-> path, content |-> content, ret |-> ret,
     evicted |-> evicted, afterPut |-> lastOp.op = "put"]

\* history: the keys of c that are gone from d, oldest first
Gone(c, d) ==
    LET lost == SelectSeq(c, LAMBDA e : e.key \notin Keys(d))
    IN  [i \in 1..Len(lost) |-> lost[i].key]

\* history: only the keys resident in c are remembered
Resident(r, c) == SelectSeq(r, LAMBDA k : k \in Keys(c))

InitCacheVars ==
    /\ fileMtime \in [Files -> {1}]
    /\ \E max_size_mb \in 1..MaxSizeMb : max_size_bytes = max_size_mb * 1024 * 1024
    /\ max_items \in 0..MaxItemsArg
    /\ current_size = 0
    /\ cache = <<>>
    /\ hits = 0
    /\ misses = 0
    /\ lastOp = NoOp
    /\ recency = <<>>

\* DocumentCache.get(file_path)
Get(path) ==
    LET key == GetCacheKey(path)
        st == [cache |-> cache, current_size |-> current_size]
    IN  /\ hits + misses < MaxGets
        /\ IF key \notin Keys(cache)
           THEN /\ misses' = misses + 1
                /\ lastOp' = Op("get", path, <<>>, None, <<>>)
                /\ UNCHANGED <<cache, current_size, hits, recency>>
           ELSE IF IsModified(GetFileMtime(path), EntryOf(cache, key))
           THEN /\ cache' = RemoveEntry(st, key).cache
                /\ current_size' = RemoveEntry(st, key).current_size
                /\ misses' = misses + 1
                /\ lastOp' = Op("get", path, <<>>, None, <<>>)
                /\ recency' = Resident(recency, cache')
                /\ UNCHANGED hits
           ELSE /\ cache' = MoveToEnd(cache, key)
                /\ hits' = hits + 1
                /\ lastOp' = Op("get", path, <<>>, Some(EntryOf(cache, key).content), <<>>)
                /\ recency' = Used(recency, key)
                /\ UNCHANGED <<current_size, misses>>
        /\ UNCHANGED <<fileMtime, max_size_bytes, max_items>>
        /\ UNCHANGED offCache

\* a put that leaves an entry already stored under the key where it is
PutAdds(path, content) ==
    LET content_size == Utf8Len(content)
        st2 == EvictLoop([cache |-> cache, current_size |-> current_size],
                         content_size)
    IN  /\ cache' = Append(st2.cache, NewEntry(path, content))
        /\ current_size' = st2.current_size + content_size
        /\ lastOp' = Op("put", path, content, None, Gone(cache, st2.cache))
        /\ recency' = Resident(Used(recency, GetCacheKey(path)), cache')
        /\ UNCHANGED <<fileMtime, max_size_bytes, max_items, hits, misses>>
        /\ UNCHANGED offCache

\* DocumentCache.put(file_path, content)
Put(path, content) ==
    LET key == GetCacheKey(path)
        content_size == Utf8Len(content)
        st0 == [cache |-> cache, current_size |-> current_size]
        st1 == IF key \in Keys(cache) THEN RemoveEntry(st0, key) ELSE st0
        st2 == EvictLoop(st1, content_size)
    IN  /\ cache' = Append(st2.cache, NewEntry(path, content))
        /\ current_size' = st2.current_size + content_size
        /\ lastOp' = Op("put", path, content, None, Gone(st1.cache, st2.cache))
        /\ recency' = Resident(Used(recency, key), cache')
        /\ UNCHANGED <<fileMtime, max_size_bytes, max_items, hits, misses>>
        /\ UNCHANGED offCache

\* DocumentCache.invalidate(file_path)
Invalidate(path) ==
    LET st == RemoveEntry([cache |-> cache, current_size |-> current_size],
                          GetCacheKey(path))
    IN  /\ cache' = st.cache
        /\ current_size' = st.current_size
        /\ lastOp' = Op("invalidate", "", <<>>, None, <<>>)
        /\ recency' = Resident(recency, cache')
        /\ UNCHANGED <<fileMtime, max_size_bytes, max_items, hits, misses>>
        /\ UNCHANGED offCache

\* a clear() that empties the cache and keeps the statistics
ClearKeepsCounters ==
    /\ cache' = <<>>
    /\ current_size' = 0
    /\ lastOp' = Op("clear", "", <<>>, None, <<>>)
    /\ recency' = <<>>
    /\ UNCHANGED <<fileMtime, max_size_bytes, max_items, hits, misses>>
    /\ UNCHANGED offCache

\* DocumentCache.clear()
Clear ==
    /\ cache' = <<>>
    /\ current_size' = 0
    /\ hits' = 0
    /\ misses' = 0
    /\ lastOp' = Op("clear", "", <<>>, None, <<>>)
    /\ recency' = <<>>
    /\ UNCHANGED <<fileMtime, max_size_bytes, max_items>>
    /\ UNCHANGED offCache

\* the environment changes a document: it is rewritten (later mtime),
\* restored with an earlier mtime, deleted or made unreadable (0)
Touch(f, m) ==
    /\ fileMtime[f] # m
    /\ fileMtime' = [fileMtime EXCEPT ![f] = m]
    /\ lastOp' = Op("touch", "", <<>>, None, <<>>)
    /\ UNCHANGED <<max_size_bytes, max_items, current_size, cache, hits, misses,
                   recency>>
    /\ UNCHANGED offCache

NextCache ==
    \/ \E path \in PathStrs : Get(path)
    \/ \E path \in PathStrs, content \in Contents : Put(path, content)
    \/ \E path \in PathStrs : Invalidate(path)
    \/ Clear
    \/ \E f \in Volatile, m \in Mtimes : Touch(f, m)

InitCache == InitLockVars /\ QuietBuild /\ InitCacheVars /\ QuietThreads /\ QuietRest

SpecCache == InitCache /\ [][NextCache]_vars

(***************************************************************************)
(* DocumentCache shared by the threads of one host.  The class takes no    *)
(* lock, so a thread switch can fall between any two accesses to the       *)
(* object: each action below is one access to self.cache, one read or one  *)
(* write of self.current_size, or one stat call.  (The condition of the    *)
(* while loop in put and the increments of hits and misses are taken as    *)
(* single steps.)                                                          *)
(***************************************************************************)
\* number of cache methods one thread calls
MaxCalls == 2

\* the documents the threads work on, and what they hold
ThreadPaths == {"a.txt", "b.txt"}

ThreadContents == {c \in Contents : Utf8Len(c) <= MiB}

Frame(t) == th[t]

\* the thread's method returns
Return(t) == th' = [th EXCEPT ![t] = IdleFrame("none")]

\* the thread's method is left by an exception
Raise(t, exc) == th' = [th EXCEPT ![t] = IdleFrame(exc)]

Goto(t, label) == th' = [th EXCEPT ![t].pc = label]

cacheFrame == <<fileMtime, max_size_bytes, max_items, lastOp, recency>>

\* put(file_path, content) is called: cache_key and content_size are computed
TPutCall(t, path, content) ==
    /\ Frame(t).pc = "idle"
    /\ calls[t] < MaxCalls
    /\ calls' = [calls EXCEPT ![t] = @ + 1]
    /\ th' = [th EXCEPT ![t] = [IdleFrame("none") EXCEPT
                 !.pc = "put_in", !.path = path, !.content = content,
                 !.key = GetCacheKey(path), !.size = Utf8Len(content)]]
    /\ UNCHANGED <<current_size, cache, hits, misses>>
    /\ UNCHANGED <<cacheFrame, offThreads>>

\* put: if cache_key in self.cache: self._remove_entry(cache_key)
TPutIn(t) ==
    /\ Frame(t).pc = "put_in"
    /\ th' = [th EXCEPT ![t] =
                 IF Frame(t).key \in Keys(cache)
                 THEN [@ EXCEPT !.pc = "rm_in", !.rmkey = Frame(t).key, !.cont = "put_loop"]
                 ELSE [@ EXCEPT !.pc = "put_loop"]]
    /\ UNCHANGED <<current_size, cache, hits, misses, calls>>
    /\ UNCHANGED <<cacheFrame, offThreads>>

\* _remove_entry: if cache_key in self.cache
TRemoveIn(t) ==
    /\ Frame(t).pc = "rm_in"
    /\ Goto(t, IF Frame(t).rmkey \in Keys(cache) THEN "rm_pop" ELSE Frame(t).cont)
    /\ UNCHANGED <<current_size, cache, hits, misses, calls>>
    /\ UNCHANGED <<cacheFrame, offThreads>>

\* _remove_entry: entry = self.cache.pop(cache_key), KeyError when the key
\* has been removed since the test
TRemovePop(t) ==
    /\ Frame(t).pc = "rm_pop"
    /\ IF Frame(t).rmkey \in Keys(cache)
       THEN /\ cache' = Without(cache, Frame(t).rmkey)
            /\ th' = [th EXCEPT ![t].pc = "rm_load",
                                ![t].popped = EntryOf(cache, Frame(t).rmkey).size]
       ELSE /\ Raise(t, "KeyError")
            /\ UNCHANGED cache
    /\ UNCHANGED <<current_size, hits, misses, calls>>
    /\ UNCHANGED <<cacheFrame, offThreads>>

\* self.current_size -= entry['size'], the read
TRemoveLoad(t) ==
    /\ Frame(t).pc = "rm_load"
    /\ th' = [th EXCEPT ![t].pc = "rm_store", ![t].tmp = current_size]
    /\ UNCHANGED <<current_size, cache, hits, misses, calls>>
    /\ UNCHANGED <<cacheFrame, offThreads>>

\* self.current_size -= entry['size'], the write; _remove_entry returns to
\* its caller (invalidate returns)
TRemoveStore(t) ==
    /\ Frame(t).pc = "rm_store"
    /\ current_size' = Frame(t).tmp - Frame(t).popped
    /\ IF Frame(t).cont = "return" THEN Return(t) ELSE Goto(t, Frame(t).cont)
    /\ UNCHANGED <<cache, hits, misses, calls>>
    /\ UNCHANGED <<cacheFrame, offThreads>>

\* put: the condition of the while loop
TPutLoop(t) ==
    /\ Frame(t).pc = "put_loop"
    /\ Goto(t, IF MustEvict([cache |-> cache, current_size |-> current_size],
                            Frame(t).size)
               THEN "ev_if" ELSE "put_stat")
    /\ UNCHANGED <<current_size, cache, hits, misses, calls>>
    /\ UNCHANGED <<cacheFrame, offThreads>>

\* _evict_oldest: if self.cache
TEvictIf(t) ==
    /\ Frame(t).pc = "ev_if"
    /\ Goto(t, IF cache # <<>> THEN "ev_next" ELSE "put_loop")
    /\ UNCHANGED <<current_size, cache, hits, misses, calls>>
    /\ UNCHANGED <<cacheFrame, offThreads>>

\* _evict_oldest: oldest_key = next(iter(self.cache)), StopIteration when
\* the cache has been emptied since the test
TEvictNext(t) ==
    /\ Frame(t).pc = "ev_next"
    /\ IF cache # <<>>
       THEN th' = [th EXCEPT ![t].pc = "rm_in", ![t].rmkey = Head(cache).key,
                             ![t].cont = "put_loop"]
       ELSE Raise(t, "StopIteration")
    /\ UNCHANGED <<current_size, cache, hits, misses, calls>>
    /\ UNCHANGED <<cacheFrame, offThreads>>

\* put: self._get_file_mtime(file_path), evaluated for the new entry
TPutStat(t) ==
    /\ Frame(t).pc = "put_stat"
    /\ th' = [th EXCEPT ![t].pc = "put_set", ![t].mtime = GetFileMtime(Frame(t).path)]
    /\ UNCHANGED <<current_size, cache, hits, misses, calls>>
    /\ UNCHANGED <<cacheFrame, offThreads>>

\* dict.__setitem__: a key already present keeps its position
SetItem(c, e) ==
    IF e.key \in Keys(c)
    THEN [i \in 1..Len(c) |-> IF c[i].key = e.key THEN e ELSE c[i]]
    ELSE Append(c, e)

\* put: self.cache[cache_key] = {...}
TPutSet(t) ==
    /\ Frame(t).pc = "put_set"
    /\ cache' = SetItem(cache, [key |-> Frame(t).key, content |-> Frame(t).content,
                                size |-> Frame(t).size, mtime |-> Frame(t).mtime,
                                path |-> Frame(t).path])
    /\ Goto(t, "put_load")
    /\ UNCHANGED <<current_size, hits, misses, calls>>
    /\ UNCHANGED <<cacheFrame, offThreads>>

\* put: self.current_size += content_size, the read
TPutLoad(t) ==
    /\ Frame(t).pc = "put_load"
    /\ th' = [th EXCEPT ![t].pc = "put_store", ![t].tmp = current_size]
    /\ UNCHANGED <<current_size, cache, hits, misses, calls>>
    /\ UNCHANGED <<cacheFrame, offThreads>>

\* put: self.current_size += content_size, the write; put returns
TPutStore(t) ==
    /\ Frame(t).pc = "put_store"
    /\ current_size' = Frame(t).tmp + Frame(t).size
    /\ Return(t)
    /\ UNCHANGED <<cache, hits, misses, calls>>
    /\ UNCHANGED <<cacheFrame, offThreads>>

\* get(file_path) is called
TGetCall(t, path) ==
    /\ Frame(t).pc = "idle"
    /\ calls[t] < MaxCalls
    /\ calls' = [calls EXCEPT ![t] = @ + 1]
    /\ th' = [th EXCEPT ![t] = [IdleFrame("none") EXCEPT
                 !.pc = "get_in", !.path = path, !.key = GetCacheKey(path)]]
    /\ UNCHANGED <<current_size, cache, hits, misses>>
    /\ UNCHANGED <<cacheFrame, offThreads>>

\* get: if cache_key not in self.cache: self.misses += 1; return None
TGetIn(t) ==
    /\ Frame(t).pc = "get_in"
    /\ IF Frame(t).key \notin Keys(cache)
       THEN /\ misses' = misses + 1
            /\ Return(t)
       ELSE /\ Goto(t, "get_stat")
            /\ UNCHANGED misses
    /\ UNCHANGED <<current_size, cache, hits, calls>>
    /\ UNCHANGED <<cacheFrame, offThreads>>

\* get: current_mtime = self._get_file_mtime(file_path)
TGetStat(t) ==
    /\ Frame(t).pc = "get_stat"
    /\ th' = [th EXCEPT ![t].pc = "get_read", ![t].mtime = GetFileMtime(Frame(t).path)]
    /\ UNCHANGED <<current_size, cache, hits, misses, calls>>
    /\ UNCHANGED <<cacheFrame, offThreads>>

\* get: cached_entry = self.cache[cache_key], KeyError when the key has been
\* removed since the test; then the mtime comparison
TGetRead(t) ==
    /\ Frame(t).pc = "get_read"
    /\ IF Frame(t).key \in Keys(cache)
       THEN LET e == EntryOf(cache, Frame(t).key)
            IN  th' = [th EXCEPT ![t] =
                    IF IsModified(Frame(t).mtime, e)
                    THEN [@ EXCEPT !.pc = "rm_in", !.rmkey = Frame(t).key,
                                   !.cont = "get_miss"]
                    ELSE [@ EXCEPT !.pc = "get_move"]]
       ELSE Raise(t, "KeyError")
    /\ UNCHANGED <<current_size, cache, hits, misses, calls>>
    /\ UNCHANGED <<cacheFrame, offThreads>>

\* get, after the stale entry is removed: self.misses += 1; return None
TGetMiss(t) ==
    /\ Frame(t).pc = "get_miss"
    /\ misses' = misses + 1
    /\ Return(t)
    /\ UNCHANGED <<current_size, cache, hits, calls>>
    /\ UNCHANGED <<cacheFrame, offThreads>>

\* get: self.cache.move_to_end(cache_key), KeyError when the key has been
\* removed; self.hits += 1; return cached_entry['content']
TGetMove(t) ==
    /\ Frame(t).pc = "get_move"
    /\ IF Frame(t).key \in Keys(cache)
       THEN /\ cache' = MoveToEnd(cache, Frame(t).key)
            /\ hits' = hits + 1
            /\ Return(t)
       ELSE /\ Raise(t, "KeyError")
            /\ UNCHANGED <<cache, hits>>
    /\ UNCHANGED <<current_size, misses, calls>>
    /\ UNCHANGED <<cacheFrame, offThreads>>

\* invalidate(file_path) is called: self._remove_entry(cache_key)
TInvalidateCall(t, path) ==
    /\ Frame(t).pc = "idle"
    /\ calls[t] < MaxCalls
    /\ calls' = [calls EXCEPT ![t] = @ + 1]
    /\ th' = [th EXCEPT ![t] = [IdleFrame("none") EXCEPT
                 !.pc = "rm_in", !.path = path, !.key = GetCacheKey(path),
                 !.rmkey = GetCacheKey(path), !.cont = "return"]]
    /\ UNCHANGED <<current_size, cache, hits, misses>>
    /\ UNCHANGED <<cacheFrame, offThreads>>

\* _remove_entry finds nothing to remove and invalidate returns
TInvalidateReturn(t) ==
    /\ Frame(t).pc = "return"
    /\ Return(t)
    /\ UNCHANGED <<current_size, cache, hits, misses, calls>>
    /\ UNCHANGED <<cacheFrame, offThreads>>

\* the environment rewrites a document
TTouch(f, m) ==
    /\ fileMtime[f] < m
    /\ fileMtime' = [fileMtime EXCEPT ![f] = m]
    /\ UNCHANGED <<max_size_bytes, max_items, current_size, cache, hits, misses,
                   lastOp, recency>>
    /\ UNCHANGED offCache

NextThreads ==
    \/ \E t \in Threads, path \in ThreadPaths, content \in ThreadContents : TPutCall(t, path, content)
    \/ \E t \in Threads : TPutIn(t)
    \/ \E t \in Threads : TRemoveIn(t)
    \/ \E t \in Threads : TRemovePop(t)
    \/ \E t \in Threads : TRemoveLoad(t)
    \/ \E t \in Threads : TRemoveStore(t)
    \/ \E t \in Threads : TPutLoop(t)
    \/ \E t \in Threads : TEvictIf(t)
    \/ \E t \in Threads : TEvictNext(t)
    \/ \E t \in Threads : TPutStat(t)
    \/ \E t \in Threads : TPutSet(t)
    \/ \E t \in Threads : TPutLoad(t)
    \/ \E t \in Threads : TPutStore(t)
    \/ \E t \in Threads, path \in ThreadPaths : TGetCall(t, path)
    \/ \E t \in Threads : TGetIn(t)
    \/ \E t \in Threads : TGetStat(t)
    \/ \E t \in Threads : TGetRead(t)
    \/ \E t \in Threads : TGetMiss(t)
    \/ \E t \in Threads : TGetMove(t)
    \/ \E t \in Threads, path \in ThreadPaths : TInvalidateCall(t, path)
    \/ \E t \in Threads : TInvalidateReturn(t)
    \/ \E f \in Volatile, m \in Mtimes : TTouch(f, m)

\* a DocumentCache(max_size_mb = 1, max_items = 1) shared by the threads
InitThreads ==
    /\ InitLockVars /\ QuietBuild /\ QuietThreads /\ QuietRest
    /\ fileMtime = [f \in Files |-> 1]
    /\ max_size_bytes = 1 * 1024 * 1024
    /\ max_items = 1
    /\ current_size = 0
    /\ cache = <<>>
    /\ hits = 0
    /\ misses = 0
    /\ lastOp = NoOp
    /\ recency = <<>>

SpecThreads == InitThreads /\ [][NextThreads]_vars

(***************************************************************************)
(* DocumentExplorer.ask (src/locallm/agents/explorer.py).                  *)
(*                                                                         *)
(* A text is a sequence of tokens.  The three protocol markers, the line   *)
(* break and the blank are tokens of their own; every other token is a     *)
(* run of characters that holds no marker, no line break and no blank at   *)
(* its ends, so that Python's `in`, split, strip and startswith on the     *)
(* string are the operators below on the token sequence.                   *)
(***************************************************************************)
NL == "\n"
SP == " "
ActionMarker == "Action:"
InputMarker == "Action Input:"
FinalMarker == "Final Answer:"
Comma == ","
Quote == "\""
\* a lone surrogate, which str.encode('utf-8', errors='ignore') drops
Surrogate == "\\ud800"

\* `tok in text`
Contains(text, tok) == \E i \in 1..Len(text) : text[i] = tok

\* the positions of tok in text
Positions(text, tok) == {i \in 1..Len(text) : text[i] = tok}

\* the k-th smallest element of a set of numbers
Nth(set, k) == CHOOSE i \in set : Cardinality({j \in set : j < i}) = k - 1

\* text.split(sep): the pieces between the occurrences of sep, one more
\* than there are occurrences
Split(text, sep) ==
    LET at == Positions(text, sep)
        n == Cardinality(at)
        from(k) == IF k = 1 THEN 1 ELSE Nth(at, k - 1) + 1
        to(k) == IF k = n + 1 THEN Len(text) ELSE Nth(at, k) - 1
    IN  [k \in 1..(n + 1) |-> SubSeq(text, from(k), to(k))]

Whitespace == {NL, SP}

\* text.strip(): from the first to the last token that is not white space
Strip(text) ==
    LET solid == {i \in 1..Len(text) : text[i] \notin Whitespace}
    IN  IF solid = {} THEN <<>>
        ELSE SubSeq(text,
                    CHOOSE i \in solid : \A j \in solid : i <= j,
                    CHOOSE i \in solid : \A j \in solid : j <= i)

\* text.startswith(tok)
StartsWith(text, tok) == Len(text) > 0 /\ text[1] = tok

\* truth value of an Optional[str]: None and "" are false
Truthy(opt) == opt # None /\ opt[1] # <<>>

\* content.encode('utf-8', errors='ignore').decode('utf-8')
Reencode(content) == SelectSeq(content, LAMBDA tok : tok # Surrogate)

\* the safety limits of the chunk loop, scaled: max_chunks is 2000 chunks
\* and max_length 16000 characters in the source
max_chunks == 4
max_length == 6

TruncatedChunks == <<NL, NL, "[Response truncated: exceeded maximum chunks]">>
TruncatedLength == <<NL, NL, "[Response truncated: exceeded maximum length]">>

\* the chunk loop: chunk number i of the stream is about to be read and
\* text is assistant_message so far
RECURSIVE ConsumeFrom(_, _, _)
ConsumeFrom(stream, i, text) ==
    IF i > Len(stream) THEN text
    ELSE IF i > max_chunks THEN text \o TruncatedChunks
    ELSE IF Len(text) > max_length THEN text \o TruncatedLength
    ELSE ConsumeFrom(stream, i + 1, text \o Reencode(stream[i]))

RECURSIVE Joined(_, _)
\* the contents of the first n chunks of the stream, re-encoded and joined
Joined(stream, n) ==
    IF n = 0 THEN <<>> ELSE Joined(stream, n - 1) \o Reencode(stream[n])

\* a chunk loop that reads every chunk, whatever their number and size
ConsumeUnlimited(stream) == Joined(stream, Len(stream))

\* assistant_message after the whole stream was iterated
Consume(stream) == ConsumeFrom(stream, 1, <<>>)

RECURSIVE CountFrom(_, _, _)
\* chunk_count after the same loop: the chunks read, the one at which the
\* loop breaks included
CountFrom(stream, i, text) ==
    IF i > Len(stream) THEN i - 1
    ELSE IF i > max_chunks THEN i
    ELSE IF Len(text) > max_length THEN i
    ELSE CountFrom(stream, i + 1, text \o Reencode(stream[i]))

ChunkCount(stream) == CountFrom(stream, 1, <<>>)

\* ---- what the model may emit ----
UAction == <<"Thought", NL, ActionMarker, SP, "read_file", NL,
             InputMarker, SP, "notes.txt">>
UFinal == <<FinalMarker, SP, "8GB">>
UPlain == <<"8GB", NL>>
UEmpty == <<>>
USurrogate == <<"8", Surrogate, "GB">>
\* an action marker without an input marker
UNoInput == <<ActionMarker, SP, "read_file">>
\* an empty input
UEmptyInput == <<ActionMarker, SP, "read_file", NL, InputMarker, SP>>
\* an empty tool name, and a final answer in the same utterance
UEmptyTool == <<ActionMarker, NL, InputMarker, SP, "notes.txt", NL,
                FinalMarker, SP, "8GB">>
\* both markers on one line
UOneLine == <<ActionMarker, SP, "read_file", SP, InputMarker, SP, "notes.txt">>
\* a refusal that names an action
UGiveUp == <<"I cannot", SP, ActionMarker, SP, "read_file">>
\* a well-formed pair and a final answer in the same utterance
UActionAndFinal == UAction \o <<NL>> \o UFinal
\* the final-answer marker twice
UTwoFinals == <<FinalMarker, SP, "8GB", NL, FinalMarker, SP, "8GB">>

\* a tool name that is no tool
UUnknownTool == <<ActionMarker, SP, "delete_file", NL, InputMarker, SP, "notes.txt">>
\* a search with a quoted pattern and a file, and one without the comma
UGrep == <<ActionMarker, SP, "grep", NL, InputMarker, SP,
           Quote, "budget", Quote, Comma, SP, "notes.txt">>
UGrepNoFile == <<ActionMarker, SP, "grep", NL, InputMarker, SP, "budget">>

Utterances ==
    {UAction, UFinal, UPlain, UEmpty, USurrogate, UNoInput, UEmptyInput,
     UEmptyTool, UOneLine, UGiveUp, UActionAndFinal, UTwoFinals,
     UUnknownTool, UGrep, UGrepNoFile}

\* a stream of more chunks than the loop reads, and one whose text outgrows
\* max_length before that
LongStream == [i \in 1..(max_chunks + 2) |-> <<"word">>]
FatChunk == [i \in 1..(max_length + 1) |-> "word"]
FatStream == <<FatChunk, FatChunk>>

\* the streams ollama.chat may return: an utterance in one chunk, or one of
\* the two oversized streams
Streams == {<<u>> : u \in Utterances \ {UEmpty}} \cup {<<>>, LongStream, FatStream}

\* ---- parsing of the utterance (lines 208-217) ----
\* the for loop over the lines: each line that starts, after strip, with
\* marker overwrites the value with the stripped text between the line's
\* first marker and its next; the value after the last line
LastLine(lines, marker) ==
    LET starts == {i \in 1..Len(lines) : StartsWith(Strip(lines[i]), marker)}
    IN  IF starts = {} THEN None
        ELSE Some(Strip(Split(lines[CHOOSE i \in starts : \A j \in starts : j <= i],
                              marker)[2]))

\* a stripped line starts with at most one of the two markers, so the elif
\* of the loop never hides an input line
Parse(text) ==
    [action_line |-> LastLine(Split(text, NL), ActionMarker),
     input_line |-> LastLine(Split(text, NL), InputMarker)]

\* the tool call is made: both markers occur and both parsed values are
\* non-empty
WantsTool(text) ==
    /\ Contains(text, ActionMarker)
    /\ Contains(text, InputMarker)
    /\ Truthy(Parse(text).action_line)
    /\ Truthy(Parse(text).input_line)

\* text.split(sep, 1): the text when sep does not occur, else the piece
\* before the first sep and the whole rest
SplitOnce(text, sep) ==
    IF ~Contains(text, sep) THEN <<text>>
    ELSE <<Split(text, sep)[1],
           SubSeq(text, Len(Split(text, sep)[1]) + 2, Len(text))>>

\* text.strip('"'), the same for the single quote: the quote tokens at both
\* ends are dropped
StripQuotes(text) ==
    LET solid == {i \in 1..Len(text) : text[i] # Quote}
    IN  IF solid = {} THEN <<>>
        ELSE SubSeq(text,
                    CHOOSE i \in solid : \A j \in solid : i <= j,
                    CHOOSE i \in solid : \A j \in solid : j <= i)

\* the documents of the directory
Documents == {<<"notes.txt">>}

\* read_file (file_ops.py): the content, or an error text of its own
ReadFile(file_path) ==
    IF file_path \in Documents
    THEN <<"Project Alpha uses 8GB budget.">>
    ELSE <<"Error: File not found:", SP>> \o file_path

\* grep (file_ops.py): the error text of read_file, or the matches
Grep(pattern, file_path) ==
    IF StartsWith(ReadFile(file_path), "Error: File not found:")
    THEN ReadFile(file_path)
    ELSE <<"Found 1 match(es) for", SP>> \o pattern \o <<SP, "in", SP>> \o file_path

\* list_docs (file_ops.py)
ListDocs(directory) == <<"Found 1 document(s) in", SP>> \o directory

Tools == {<<"read_file">>, <<"grep">>, <<"list_docs">>}

ToolRaised(tool_name) == <<"Error calling tool", SP>> \o tool_name \o <<":", SP, "boom">>
GrepUsage == <<"Error: grep requires pattern and file_path">>
UnknownTool(tool_name) == <<"Error: Unknown tool", SP>> \o tool_name

\* _call_tool: the observation.  raises: the status callback or the tool
\* raises an exception, which the handler turns into an error text; only
\* the branches of the three tools make such calls
CallTool(tool_name, tool_input, raises) ==
    IF raises /\ tool_name \in Tools THEN ToolRaised(tool_name)
    ELSE IF tool_name = <<"read_file">> THEN ReadFile(tool_input)
    ELSE IF tool_name = <<"grep">>
    THEN IF Len(SplitOnce(tool_input, Comma)) = 2
         THEN Grep(StripQuotes(Strip(SplitOnce(tool_input, Comma)[1])),
                   StripQuotes(Strip(SplitOnce(tool_input, Comma)[2])))
         ELSE GrepUsage
    ELSE IF tool_name = <<"list_docs">> THEN ListDocs(tool_input)
    ELSE UnknownTool(tool_name)

\* a _call_tool without its try / except: the exception leaves it
ToolOutcomeUnguarded(tool_name, tool_input, raises) ==
    IF raises /\ tool_name \in Tools THEN None
    ELSE Some(CallTool(tool_name, tool_input, FALSE))

\* how _call_tool ends: Some(observation) for a return, None for an
\* exception that leaves it.  Its try / except Exception spans the whole
\* body, so it always returns
ToolOutcome(tool_name, tool_input, raises) ==
    Some(CallTool(tool_name, tool_input, raises))

\* _is_incomplete_answer
incomplete_indicators == {"i cannot", "i don't have", "no information",
                          "not found", "unable to"}

LowerToken(tok) == IF tok = "I cannot" THEN "i cannot" ELSE tok

IsIncompleteAnswer(text) ==
    \E i \in 1..Len(text) : LowerToken(text[i]) \in incomplete_indicators

\* _fallback_keyword_search(question): some text, never an exception
Fallback == <<"Fallback Search Results">>

Question == <<"What budget does Project Alpha use?">>
SystemPrompt == <<"system prompt">>

Msg(role, content) == [role |-> role, content |-> content]

\* an earlier question and its answer
PriorExchange == <<Msg("user", <<"earlier question">>),
                   Msg("assistant", <<"earlier answer">>)>>

ErrorDuringGeneration == <<"Error during response generation:", SP, "boom">>
UnboundLocal == <<"Error:", SP, "local variable 'assistant_message' referenced before assignment",
                  NL, NL>> \o Fallback
MaxIterationsReached == <<"Maximum iterations reached without final answer.">>

\* an off-by-one loop bound
InRangeInclusive(it, maxit) == it <= maxit

\* range(self.max_iterations) still has an element for the loop variable
InRange(it, maxit) == it < maxit

MaxIterations == 3

Returned(state, answer) == [state |-> state, answer |-> answer, steps |-> steps]

\* lines 121-131: ask(question) builds the messages, the history between the
\* system prompt and the question
AskCall ==
    /\ apc = "idle"
    /\ apc' = "loop"
    /\ messages' = <<Msg("system", SystemPrompt)>> \o conversation_history
                       \o <<Msg("user", Question)>>
    /\ steps' = <<>>
    /\ iteration' = 0
    /\ UNCHANGED <<max_iterations, assistant_message, action_line, input_line,
                   conversation_history, result, requests, failed, dispatches,
                   streamed, chunk_count,
                   offAgent>>

\* lines 200-217: the utterance is appended to the messages and, when both
\* markers occur in it, its lines are parsed; without them the two locals
\* are not read again before they are next set
Utter(text) ==
    /\ assistant_message' = Some(text)
    /\ messages' = Append(messages, Msg("assistant", text))
    /\ action_line' = IF Contains(text, ActionMarker) /\ Contains(text, InputMarker)
                      THEN Parse(text).action_line ELSE None
    /\ input_line' = IF Contains(text, ActionMarker) /\ Contains(text, InputMarker)
                     THEN Parse(text).input_line ELSE None
    /\ apc' = "parse"

\* lines 135-217: the request is made and its stream is read to the end or
\* to one of the safety limits
Generate(stream) ==
    /\ apc = "loop"
    /\ InRange(iteration, max_iterations)
    /\ requests' = requests + 1
    /\ Utter(Consume(stream))
    /\ failed' = NotFailed
    /\ streamed' = stream
    /\ chunk_count' = ChunkCount(stream)
    /\ UNCHANGED <<max_iterations, iteration, steps, conversation_history,
                   result, dispatches, offAgent>>

\* lines 161-217: the stream raises after k chunks were delivered; what was
\* read is kept, an error text stands in for nothing
StreamRaises(stream, k) ==
    /\ apc = "loop"
    /\ InRange(iteration, max_iterations)
    /\ requests' = requests + 1
    /\ Utter(IF Consume(SubSeq(stream, 1, k)) = <<>> THEN ErrorDuringGeneration
             ELSE Consume(SubSeq(stream, 1, k)))
    /\ failed' = [kind |-> "stream", accumulated |-> Consume(SubSeq(stream, 1, k))]
    /\ streamed' = stream
    /\ chunk_count' = ChunkCount(SubSeq(stream, 1, k))
    /\ UNCHANGED <<max_iterations, iteration, steps, conversation_history,
                   result, dispatches, offAgent>>

\* lines 144-152, 193-198, 292-298: ollama.chat itself raises in the first
\* iteration, where assistant_message is not bound yet: the handler's read
\* of it raises, and the outer handler returns the error with the fallback
ChatRaisesUnbound ==
    /\ apc = "loop"
    /\ InRange(iteration, max_iterations)
    /\ assistant_message = None
    /\ requests' = requests + 1
    /\ failed' = [kind |-> "call", accumulated |-> <<>>]
    /\ streamed' = <<>>
    /\ UNCHANGED chunk_count
    /\ result' = Returned("Errored", UnboundLocal)
    /\ apc' = "done"
    /\ UNCHANGED <<max_iterations, iteration, assistant_message, messages,
                   action_line, input_line, steps, conversation_history,
                   dispatches, offAgent>>

\* lines 144-152, 193-217: ollama.chat raises in a later iteration, where
\* assistant_message still holds the previous utterance
ChatRaisesBound ==
    /\ apc = "loop"
    /\ InRange(iteration, max_iterations)
    /\ assistant_message # None
    /\ requests' = requests + 1
    /\ Utter(IF assistant_message[1] = <<>> THEN ErrorDuringGeneration
             ELSE assistant_message[1])
    /\ failed' = [kind |-> "call", accumulated |-> <<>>]
    /\ streamed' = <<>>
    /\ UNCHANGED chunk_count
    /\ UNCHANGED <<max_iterations, iteration, steps, conversation_history,
                   result, dispatches, offAgent>>

\* line 219: `if action_line and input_line`
ToolCall == Truthy(action_line) /\ Truthy(input_line)

\* lines 219-240: the tool is called, the step logged, the observation
\* appended, and the loop continues; lines 292-298: an exception that left
\* _call_tool would reach the outer handler of ask()
Dispatch(raises) ==
    /\ apc = "parse"
    /\ ToolCall
    /\ dispatches' = dispatches + 1
    /\ LET outcome == ToolOutcome(action_line[1], input_line[1], raises)
       IN  IF outcome = None
           THEN /\ result' = Returned("Errored", <<"Error:", SP, "boom", NL, NL>> \o Fallback)
                /\ apc' = "done"
                /\ UNCHANGED <<steps, messages, iteration>>
           ELSE /\ steps' = Append(steps, [action |-> action_line[1],
                                           input |-> input_line[1],
                                           observation |-> outcome[1]])
                /\ messages' = Append(messages,
                                   Msg("user", <<"Observation:", SP>> \o outcome[1]))
                /\ iteration' = iteration + 1
                /\ apc' = "loop"
                /\ UNCHANGED result
    /\ UNCHANGED <<max_iterations, assistant_message, action_line, input_line,
                   conversation_history, requests, failed, streamed,
                   chunk_count, offAgent>>

\* what a return leaves as it was
returnFrame == <<max_iterations, iteration, assistant_message, messages,
                 action_line, input_line, steps, requests, failed, dispatches,
                 streamed, chunk_count,
                 offAgent>>

\* a variant that returns the utterance without its white space
ReturnPlainStripped ==
    /\ apc = "parse"
    /\ ~ToolCall
    /\ ~Contains(assistant_message[1], FinalMarker)
    /\ ~Contains(assistant_message[1], ActionMarker)
    /\ conversation_history' = conversation_history \o
           <<Msg("user", Question), Msg("assistant", Strip(assistant_message[1]))>>
    /\ result' = Returned("Answered", Strip(assistant_message[1]))
    /\ apc' = "done"
    /\ UNCHANGED returnFrame

\* a variant that stores the whole utterance in the history
ReturnFinalWhole ==
    /\ apc = "parse"
    /\ ~ToolCall
    /\ Contains(assistant_message[1], FinalMarker)
    /\ conversation_history' = conversation_history \o
           <<Msg("user", Question), Msg("assistant", assistant_message[1])>>
    /\ result' = Returned("Answered",
                          Strip(Split(assistant_message[1], FinalMarker)[2]))
    /\ apc' = "done"
    /\ UNCHANGED returnFrame

\* lines 243-256: no tool call, the final-answer marker occurs
ReturnFinal ==
    /\ apc = "parse"
    /\ ~ToolCall
    /\ Contains(assistant_message[1], FinalMarker)
    /\ LET final_answer == Strip(Split(assistant_message[1], FinalMarker)[2])
       IN  /\ conversation_history' = conversation_history \o
                  <<Msg("user", Question), Msg("assistant", final_answer)>>
           /\ result' = Returned("Answered", final_answer)
    /\ apc' = "done"
    /\ UNCHANGED returnFrame

\* lines 258-271: no tool call, no final-answer marker, no action marker
ReturnPlain ==
    /\ apc = "parse"
    /\ ~ToolCall
    /\ ~Contains(assistant_message[1], FinalMarker)
    /\ ~Contains(assistant_message[1], ActionMarker)
    /\ conversation_history' = conversation_history \o
           <<Msg("user", Question), Msg("assistant", assistant_message[1])>>
    /\ result' = Returned("Answered", assistant_message[1])
    /\ apc' = "done"
    /\ UNCHANGED returnFrame

\* an action marker that led to no tool call, and no final-answer marker
Undecided ==
    /\ ~ToolCall
    /\ ~Contains(assistant_message[1], FinalMarker)
    /\ Contains(assistant_message[1], ActionMarker)

\* lines 273-285: such an utterance in the last iteration is returned, with
\* the fallback search after it when it reads as a refusal
ReturnLast ==
    /\ apc = "parse"
    /\ Undecided
    /\ iteration = max_iterations - 1
    /\ result' = Returned("MaxIterationsExceeded",
                     IF IsIncompleteAnswer(assistant_message[1])
                     THEN assistant_message[1] \o <<NL, NL>> \o Fallback
                     ELSE assistant_message[1])
    /\ apc' = "done"
    /\ UNCHANGED <<conversation_history, returnFrame>>

\* lines 135, 273-274: such an utterance in an earlier iteration falls off
\* the end of the loop body, and the loop goes on
NextIteration ==
    /\ apc = "parse"
    /\ Undecided
    /\ iteration # max_iterations - 1
    /\ iteration' = iteration + 1
    /\ apc' = "loop"
    /\ UNCHANGED <<max_iterations, assistant_message, messages, action_line,
                   input_line, steps, conversation_history, result, requests,
                   failed, dispatches, streamed, chunk_count, offAgent>>

\* lines 135, 287-290: the range is exhausted
LoopExhausted ==
    /\ apc = "loop"
    /\ ~InRange(iteration, max_iterations)
    /\ result' = Returned("MaxIterationsExceeded", MaxIterationsReached)
    /\ apc' = "done"
    /\ UNCHANGED <<conversation_history, returnFrame>>

NextAgent ==
    \/ AskCall
    \/ \E stream \in Streams : Generate(stream)
    \/ \E stream \in Streams : \E k \in 0..Len(stream) : StreamRaises(stream, k)
    \/ ChatRaisesUnbound
    \/ ChatRaisesBound
    \/ \E raises \in BOOLEAN : Dispatch(raises)
    \/ ReturnFinal
    \/ ReturnPlain
    \/ ReturnLast
    \/ NextIteration
    \/ LoopExhausted

\* a DocumentExplorer(max_iterations = n) with or without an earlier exchange
\* in its history, ask() not called yet
InitAgent ==
    /\ InitLockVars /\ QuietBuild /\ QuietCache /\ QuietThreads
    /\ QuietScope /\ QuietProbe /\ QuietWatch /\ QuietChat /\ QuietGen
    /\ apc = "idle"
    /\ max_iterations \in 0..MaxIterations
    /\ iteration = 0
    /\ assistant_message = None
    /\ messages = <<>>
    /\ action_line = None
    /\ input_line = None
    /\ steps = <<>>
    /\ conversation_history \in {<<>>, PriorExchange}
    /\ result = NoResult
    /\ requests = 0
    /\ failed = NotFailed
    /\ streamed = <<>>
    /\ chunk_count = 0
    /\ dispatches = 0

SpecAgent == InitAgent /\ [][NextAgent]_vars

FairIterations == 2

\* the same object with max_iterations up to FairIterations
InitAgentFair == InitAgent /\ max_iterations <= FairIterations

\* ask() runs on: the interpreter takes the next step of the call
SpecAgentFair == InitAgentFair /\ [][NextAgent]_vars /\ WF_vars(NextAgent)


(***************************************************************************)
(* The interactive chat loop (src/locallm/cli.py, chat) around             *)
(* DocumentExplorer.chat(use_tools=True), which runs ask().                *)
(***************************************************************************)
MaxTurns == 2
MaxPresses == 3
ChatIterations == 2

\* the frame of ask() is gone: its locals are unbound again
AgentLeaves ==
    /\ apc' = "idle"
    /\ iteration' = 0
    /\ assistant_message' = None
    /\ messages' = <<>>
    /\ action_line' = None
    /\ input_line' = None
    /\ steps' = <<>>
    /\ result' = NoResult
    /\ requests' = 0
    /\ failed' = NotFailed
    /\ dispatches' = 0
    /\ streamed' = <<>>
    /\ chunk_count' = 0
    /\ UNCHANGED <<max_iterations, conversation_history>>

\* cli.py 293-305: a line is read that ends the session ("exit"), is blank,
\* or is a slash command; the counter is reset before the line is looked at
SubmitCommand(kind) ==
    /\ cpc = "input"
    /\ interrupt_count' = 0
    /\ pressed' = 0
    /\ cpc' = IF kind = "exit" THEN "exited" ELSE "input"
    /\ UNCHANGED <<swallowed, turns, histBefore, lastTurn, agentVars, offChat>>

\* cli.py 293-322: a message is read, the counter reset, and explorer.chat
\* called with it
SubmitMessage ==
    /\ cpc = "input"
    /\ turns < MaxTurns
    /\ interrupt_count' = 0
    /\ pressed' = 0
    /\ swallowed' = 0
    /\ turns' = turns + 1
    /\ histBefore' = conversation_history
    /\ cpc' = "responding"
    /\ UNCHANGED <<lastTurn, agentVars, offChat>>

\* explorer.py 492-518, cli.py 322-331: ask() has returned, chat() returns
\* its answer, and the counter is reset
ResponseDone ==
    /\ cpc = "responding"
    /\ apc = "done"
    /\ interrupt_count' = 0
    /\ pressed' = 0
    /\ lastTurn' = [kind |-> "answer", swallowed |-> swallowed,
                    kept |-> conversation_history = histBefore]
    /\ cpc' = "input"
    /\ AgentLeaves
    /\ UNCHANGED <<swallowed, turns, histBefore, offChat>>

\* cli.py 350-356: KeyboardInterrupt at the prompt
InterruptPrompt ==
    /\ cpc = "input"
    /\ pressed < MaxPresses
    /\ pressed' = pressed + 1
    /\ interrupt_count' = interrupt_count + 1
    /\ cpc' = IF interrupt_count + 1 = 1 THEN "input" ELSE "exited"
    /\ UNCHANGED <<swallowed, turns, histBefore, lastTurn, agentVars, offChat>>

\* explorer.py 144-161, cli.py 333-348: KeyboardInterrupt inside ollama.chat
\* or while the next chunk is awaited.  It is no Exception, so neither
\* handler of ask() catches it; it leaves ask() and chat() and reaches the
\* inner handler of the loop
InterruptGeneration ==
    /\ cpc = "responding"
    /\ apc = "loop"
    /\ InRange(iteration, max_iterations)
    /\ pressed < MaxPresses
    /\ pressed' = pressed + 1
    /\ interrupt_count' = interrupt_count + 1
    /\ cpc' = IF interrupt_count + 1 = 1 THEN "input" ELSE "exited"
    /\ lastTurn' = [kind |-> "interrupted", swallowed |-> swallowed,
                    kept |-> conversation_history = histBefore]
    /\ AgentLeaves
    /\ UNCHANGED <<swallowed, turns, histBefore, offChat>>

\* explorer.py 176-179, 420-477: KeyboardInterrupt while the chunk loop of
\* the request just read was inside the `try: ... except: pass` of the
\* stream callback (called for every character of a chunk with content) or
\* of the re-encoding.  The bare except catches it and the loop goes on
InterruptSwallowed ==
    /\ cpc = "responding"
    /\ apc = "parse"
    /\ failed.kind = "none"
    /\ assistant_message[1] # <<>>
    /\ swallowed = 0
    /\ pressed < MaxPresses
    /\ pressed' = pressed + 1
    /\ swallowed' = swallowed + 1
    /\ UNCHANGED <<cpc, interrupt_count, turns, histBefore, lastTurn, agentVars,
                   offChat>>

\* the steps of ask() inside chat()
ChatAsk == cpc = "responding" /\ NextAgent

NextChat ==
    \/ \E kind \in {"exit", "blank", "slash"} : SubmitCommand(kind)
    \/ SubmitMessage
    \/ ChatAsk
    \/ ResponseDone
    \/ InterruptPrompt
    \/ InterruptGeneration
    \/ InterruptSwallowed

\* the session is started with a DocumentExplorer whose history is empty
InitChat ==
    /\ InitLockVars /\ QuietBuild /\ QuietCache /\ QuietThreads
    /\ QuietScope /\ QuietProbe /\ QuietWatch /\ QuietChat /\ QuietGen
    /\ apc = "idle"
    /\ max_iterations = ChatIterations
    /\ iteration = 0
    /\ assistant_message = None
    /\ messages = <<>>
    /\ action_line = None
    /\ input_line = None
    /\ steps = <<>>
    /\ conversation_history = <<>>
    /\ result = NoResult
    /\ requests = 0
    /\ failed = NotFailed
    /\ streamed = <<>>
    /\ chunk_count = 0
    /\ dispatches = 0

SpecChat == InitChat /\ [][NextChat]_vars

(***************************************************************************)
(* The conversation history under every caller of the explorer: ask()      *)
(* through chat() with tools as above, chat(use_tools = False) and         *)
(* clear_history() (agents/explorer.py 312-390, 522-524).                  *)
(***************************************************************************)
RECURSIVE Accumulated(_, _)
\* lines 343-346: `answer += content` over the first n chunks, as they come
Accumulated(stream, n) ==
    IF n = 0 THEN <<>> ELSE Accumulated(stream, n - 1) \o stream[n]

\* lines 312-314: chat(message, use_tools = False) appends the user turn
\* before anything else
SimpleChatCall ==
    /\ cpc = "input"
    /\ apc = "idle"
    /\ turns < MaxTurns
    /\ turns' = turns + 1
    /\ histBefore' = conversation_history
    /\ conversation_history' = Append(conversation_history, Msg("user", Question))
    /\ apc' = "simple"
    /\ cpc' = "responding"
    /\ UNCHANGED <<max_iterations, iteration, assistant_message, messages,
                   action_line, input_line, steps, result, requests, failed,
                   dispatches, streamed, chunk_count,
                   interrupt_count, pressed, swallowed, lastTurn, offChat>>

\* what the three ways out of the simple chat share
SimpleChatEnds(kind) ==
    /\ cpc = "responding"
    /\ apc = "simple"
    /\ apc' = "idle"
    /\ cpc' = "input"
    /\ lastTurn' = [kind |-> kind, swallowed |-> 0,
                    kept |-> conversation_history' = histBefore]
    /\ UNCHANGED <<max_iterations, iteration, assistant_message, messages,
                   action_line, input_line, steps, result, requests, failed,
                   dispatches, streamed, chunk_count,
                   interrupt_count, pressed, swallowed, turns, histBefore,
                   offChat>>

\* lines 330-380: the stream is read to its end, the reply appended and
\* returned
SimpleChatAnswer(stream) ==
    /\ conversation_history' =
           Append(conversation_history,
                  Msg("assistant", Accumulated(stream, Len(stream))))
    /\ SimpleChatEnds("answer")

\* lines 382-387: KeyboardInterrupt inside the try: the user turn is popped
\* and the interrupt raised again
SimpleChatInterrupt ==
    /\ conversation_history' =
           SubSeq(conversation_history, 1, Len(conversation_history) - 1)
    /\ SimpleChatEnds("interrupted")

\* lines 388-389: any other exception of the request or of the stream: the
\* error text is returned
SimpleChatError ==
    /\ UNCHANGED conversation_history
    /\ SimpleChatEnds("error")

\* lines 522-524
ClearHistory ==
    /\ cpc = "input"
    /\ apc = "idle"
    /\ conversation_history' = <<>>
    /\ UNCHANGED <<apc, max_iterations, iteration, assistant_message, messages,
                   action_line, input_line, steps, result, requests, failed,
                   dispatches, streamed, chunk_count, chatVars, offChat>>

NextHistory ==
    \/ SubmitMessage
    \/ ChatAsk
    \/ ResponseDone
    \/ InterruptGeneration
    \/ SimpleChatCall
    \/ \E stream \in Streams : SimpleChatAnswer(stream)
    \/ SimpleChatInterrupt
    \/ SimpleChatError
    \/ ClearHistory

SpecHistory == InitChat /\ [][NextHistory]_vars

(***************************************************************************)
(* The knowledge map generator (tools/map_generator.py) and the loading of *)
(* the map by the explorer (agents/explorer.py).  A file name is a string, *)
(* a text is a sequence of tokens as for the agent.                        *)
(***************************************************************************)
Directory == "docs"
output_file == "knowledge_map.yaml"

\* the supported documents the directory may hold, and one picture
Supported == {"notes.md", "yusuan2024.pdf"}
Names == Supported \cup {"pic.png"}

\* directory.rglob('*'): every entry, in the order of the file system
Rglob == <<"notes.md", "pic.png", "yusuan2024.pdf", output_file>>

\* Path.suffix
Suffix(name) ==
    CASE name = "notes.md" -> ".md"
      [] name = "yusuan2024.pdf" -> ".pdf"
      [] name = "pic.png" -> ".png"
      [] name = output_file -> ".yaml"

\* Path.stem
Stem(name) ==
    CASE name = "notes.md" -> "notes"
      [] name = "yusuan2024.pdf" -> "yusuan2024"
      [] name = "pic.png" -> "pic"
      [] name = output_file -> "knowledge_map"

\* a string as its runs of characters of one script; "yusuan" stands for a
\* run of Han characters
Runs(stem) == IF stem = "yusuan2024" THEN <<"yusuan", "2024">> ELSE <<stem>>

\* the runs that match [\u4e00-\u9fff]+
Han == {"yusuan"}

\* file_path.suffix[1:].upper()
FileType(name) ==
    CASE Suffix(name) = ".md" -> "MD"
      [] Suffix(name) = ".pdf" -> "PDF"
      [] Suffix(name) = ".png" -> "PNG"
      [] Suffix(name) = ".yaml" -> "YAML"


\* what a document may contain
Prose == <<"The", SP, "Budget", SP, "plan", NL>>
Lowercase == <<"notes", SP, "only", NL>>
ErrorLog == <<"Error:", SP, "disk", SP, "full">>
Blank == <<SP, NL>>
Texts == {Prose, Lowercase, ErrorLog, Blank, <<>>}

Missing == [present |-> FALSE, readable |-> FALSE, content |-> <<>>]
Unreadable == [present |-> TRUE, readable |-> FALSE, content |-> Prose]
Readable(content) == [present |-> TRUE, readable |-> TRUE, content |-> content]

FileStates == {Missing, Unreadable} \cup {Readable(content) : content \in Texts}

\* read_file (file_ops.py) on the directory d: the content, or a text about
\* the error: every exception of the readers is turned into such a text
read_file(d, name) ==
    IF ~d[name].present
    THEN <<"Error:", SP, "File not found:", SP, name>>
    ELSE IF Suffix(name) \in supported_exts
    THEN IF d[name].readable
         THEN d[name].content
         ELSE <<"Error", SP, "reading file", SP, name, ":", SP, "boom">>
    ELSE <<"Error:", SP, "Unsupported file type:", SP, Suffix(name)>>

\* file_path.is_file() for an entry of the directory
IsFile(d, index, name) ==
    IF name = output_file THEN index.kind # "absent" ELSE d[name].present

\* list_docs (file_ops.py) on the directory
list_docs(d, index) ==
    LET documents == SelectSeq(Rglob, LAMBDA name :
                         IsFile(d, index, name) /\ Suffix(name) \in supported_exts)
    IN  IF documents = <<>>
        THEN <<"No documents found", SP, "in", SP, Directory>>
        ELSE <<"Found", SP, "document(s) in", SP, Directory, ":", NL>> \o documents

\* the files the build collects (lines 43-48)
FilesToProcess(d, index) ==
    SelectSeq(Rglob, LAMBDA name :
        /\ IsFile(d, index, name)
        /\ Suffix(name) \in supported_exts
        /\ name # output_file)

\* ---- the concepts: a concept is a string ----

\* str.lower().strip() of the concepts the replies use
LowerStrip(concept) ==
    CASE concept = "Page" -> "page"
      [] concept = " x " -> "x"
      [] OTHER -> concept

\* the strings of fewer than two characters
Short == {"", "x"}

\* the strings with an '@'
WithAt == {"a@b.org"}

blacklist == {"page", "figure", "table", "section", "chapter", "appendix",
              "reference", "abstract", "introduction", "conclusion",
              "university", "department", "institute"}

\* a list item that is no string
NotAString == "<int>"

\* the value of the key_concepts field of a reply: a list, or a number
List(items) == [kind |-> "list", items |-> items]
Number == [kind |-> "number", items |-> <<>>]

\* the truth value of such a value: a number other than 0 is true
TruthyConcepts(value) == value.kind = "number" \/ value.items # <<>>

\* _filter_invalid_concepts raises: iterating a number, or .lower() of an
\* item that is no string
FilterRaises(value) ==
    \/ value.kind # "list"
    \/ \E i \in 1..Len(value.items) : value.items[i] = NotAString

\* _filter_invalid_concepts(concepts)
FilterInvalidConcepts(concepts) ==
    SelectSeq(concepts, LAMBDA concept :
        /\ LowerStrip(concept) \notin Short
        /\ LowerStrip(concept) \notin blacklist
        /\ LowerStrip(concept) \notin WithAt)

\* ---- the replies of the language model ----
LongDescription == <<"A", SP, "budget", SP, "plan">>
ShortDescription == <<"plan">>

\* len(description) >= 100 in the source, scaled to tokens
description_min == 2
\* len(description) < 50 in the source, scaled to tokens
intro_min == 2

Reply(raises, json, description, key_concepts) ==
    [raises |-> raises, json |-> json, description |-> description,
     key_concepts |-> key_concepts]

Replies ==
    { Reply(FALSE, "object", LongDescription, List(<<"budget", "Page">>)),
      Reply(TRUE, "none", <<>>, List(<<>>)),
      Reply(FALSE, "none", <<>>, List(<<>>)),
      Reply(FALSE, "bad", <<>>, List(<<>>)),
      Reply(FALSE, "object", ShortDescription, List(<<"budget">>)),
      Reply(FALSE, "object", LongDescription, List(<<>>)),
      Reply(FALSE, "object", LongDescription, List(<<"Page", " x ", "a@b.org", "x">>)),
      Reply(FALSE, "object", LongDescription, List(<<"budget", NotAString>>)),
      Reply(FALSE, "object", <<>>, Number) }

Analysis(description, key_concepts) ==
    [description |-> description, key_concepts |-> key_concepts]

\* _extract_introduction(content): new lines become spaces, then strip()
ExtractIntroduction(content) ==
    Strip([i \in 1..Len(content) |-> IF content[i] = NL THEN SP ELSE content[i]])

stopwords == {"The", "This", "That", "These", "Those", "And", "Or", "But",
              "Page", "Figure", "Table", "Section", "Chapter"}

\* the tokens that match [A-Z][a-z]+
Capitalised == {"The", "Budget", "Error"}

\* _extract_key_concepts(content): the capitalised words that are no stopwords
ExtractKeyConcepts(content) ==
    SelectSeq(content, LAMBDA tok : tok \in Capitalised /\ tok \notin stopwords)

\* _fallback_analysis(title, content, file_type)
FallbackAnalysis(title, content, file_type) ==
    Analysis(IF Len(ExtractIntroduction(content)) < intro_min
             THEN <<file_type, SP, "document:", SP, title>>
             ELSE ExtractIntroduction(content),
             ExtractKeyConcepts(content))

\* _ai_analyze_document(title, content, file_type) when the model answers
\* with reply: every exception ends in the fallback
AiAnalyzeDocument(title, content, file_type, reply) ==
    IF reply.raises \/ reply.json # "object"
    THEN FallbackAnalysis(title, content, file_type)
    ELSE IF TruthyConcepts(reply.key_concepts) /\ FilterRaises(reply.key_concepts)
    THEN FallbackAnalysis(title, content, file_type)
    ELSE IF Len(Strip(reply.description)) >= description_min
    THEN Analysis(Strip(reply.description),
                  FilterInvalidConcepts(reply.key_concepts.items))
    ELSE FallbackAnalysis(title, content, file_type)

\* _ai_analyze_toc(title, toc_or_abstract, file_type) when the model answers
\* with reply: every exception ends in the title and no concept
AiAnalyzeToc(title, reply) ==
    IF reply.raises \/ reply.json # "object"
    THEN Analysis(<<"Document:", SP, title>>, <<>>)
    ELSE IF TruthyConcepts(reply.key_concepts) /\ FilterRaises(reply.key_concepts)
    THEN Analysis(<<"Document:", SP, title>>, <<>>)
    ELSE Analysis(IF Strip(reply.description) = <<>>
                  THEN <<"Document:", SP, title>>
                  ELSE Strip(reply.description),
                  FilterInvalidConcepts(reply.key_concepts.items))

\* f"{file_type} document"
TypeLabel(file_type) ==
    CASE file_type = "MD" -> "MD document"
      [] file_type = "PDF" -> "PDF document"
      [] OTHER -> "document"

\* lines 132-141 with the fallback left out
EnsureConceptsKept(key_concepts, name) == key_concepts

\* lines 132-141: key_concepts, or else words of the file name
EnsureConcepts(key_concepts, name) ==
    IF key_concepts # <<>> THEN key_concepts
    ELSE IF \E i \in 1..Len(Runs(Stem(name))) : Runs(Stem(name))[i] \in Han
    THEN LET filename_words == SelectSeq(Runs(Stem(name)), LAMBDA run : run \in Han)
         IN  IF filename_words # <<>>
             THEN SubSeq(filename_words, 1,
                         IF Len(filename_words) < 3 THEN Len(filename_words) ELSE 3)
             ELSE <<TypeLabel(FileType(name))>>
    ELSE <<Stem(name)>>

\* ---- the index file ----
IndexFile(kind, documents) ==
    [kind |-> kind, total_documents |-> Len(documents), documents |-> documents]

NoIndex == IndexFile("absent", <<>>)
EmptyFile == IndexFile("empty", <<>>)
MalformedFile == IndexFile("malformed", <<>>)

Entry(id, name, description, key_concepts) ==
    [id |-> id, title |-> Stem(name), path |-> name,
     description |-> description, key_concepts |-> key_concepts]

\* the index an earlier build wrote when both documents were there
OldIndex ==
    IndexFile("map", <<Entry(0, "notes.md", LongDescription, <<"budget">>),
                       Entry(1, "yusuan2024.pdf", LongDescription, <<"yusuan">>)>>)

\* yaml.safe_load of the file: None for an empty file, the mapping for a
\* dumped index; a malformed file raises
SafeLoadRaises(index) == index.kind = "malformed"
YamlSafeLoad(index) ==
    IF index.kind = "map"
    THEN Some([total_documents |-> index.total_documents,
               documents |-> index.documents])
    ELSE None

\* load_knowledge_map(directory): None when the file does not exist
LoadRaises(index) == index.kind # "absent" /\ SafeLoadRaises(index)
LoadKnowledgeMap(index) ==
    IF index.kind = "absent" THEN None ELSE YamlSafeLoad(index)

\* ---- generate_knowledge_map ----
NothingToProcess == <<"No documents found to process.">>
Created == <<"Knowledge map created">>
FileNotFoundError == <<"FileNotFoundError">>
OSError == <<"OSError">>

EndReturned(text) == [kind |-> "returned", text |-> text]
EndRaised(text) == [kind |-> "raised", text |-> text]

\* the call begins (lines 28-29); the caller moves to position at
GenerateKnowledgeMap(fast, at) ==
    /\ gpc = "idle"
    /\ gpc' = "list"
    /\ fast_mode' = fast
    /\ files_to_process' = <<>>
    /\ idx' = 0
    /\ document_entries' = <<>>
    /\ analysed' = <<>>
    /\ ended' = NotEnded
    /\ readAs' = <<>>
    /\ atCall' = {name \in Supported : disk[name].present}
    /\ epc' = at
    /\ UNCHANGED <<disk, map_file>>

\* lines 32-35: list_docs, and the return of its text when it tells of an
\* error or of no document
ListStep ==
    /\ gpc = "list"
    /\ LET docs_list == list_docs(disk, map_file)
       IN  IF StartsWith(docs_list, "Error:")
              \/ Contains(docs_list, "No documents found")
           THEN gpc' = "done" /\ ended' = EndReturned(docs_list)
           ELSE gpc' = "collect" /\ UNCHANGED ended
    /\ UNCHANGED <<disk, map_file, fast_mode, files_to_process, idx,
                   document_entries, analysed, epc, knowledge_map, readAs,
                   atCall>>
    /\ UNCHANGED offGen

\* lines 38-52: the files to process, and the return when there is none
CollectStep ==
    /\ gpc = "collect"
    /\ files_to_process' = FilesToProcess(disk, map_file)
    /\ IF files_to_process' = <<>>
       THEN gpc' = "done" /\ ended' = EndReturned(NothingToProcess) /\ idx' = 0
       ELSE gpc' = "read" /\ UNCHANGED ended /\ idx' = 1
    /\ document_entries' = <<>>
    /\ UNCHANGED <<disk, map_file, fast_mode, analysed, epc, knowledge_map,
                   readAs, atCall>>
    /\ UNCHANGED offGen

\* progress.advance and the next turn of the loop, or the end of the loop
Advance ==
    /\ idx' = idx + 1
    /\ gpc' = IF idx < Len(files_to_process) THEN "read" ELSE "write"

\* lines 76-141: read the file, skip it when the text begins with "Error:"
\* or is blank, else analyse it with the model, which answers with reply
ReadStep(reply) ==
    /\ gpc = "read"
    /\ LET name == files_to_process[idx]
           content == read_file(disk, name)
           found == IF fast_mode
                    THEN AiAnalyzeToc(Stem(name), reply)
                    ELSE AiAnalyzeDocument(name, content, FileType(name), reply)
       IN  /\ readAs' = (name :> disk[name]) @@ readAs
           /\ IF StartsWith(content, "Error:") \/ Strip(content) = <<>>
              THEN Advance /\ UNCHANGED analysed
              ELSE /\ analysed' = Analysis(found.description,
                                       EnsureConcepts(found.key_concepts, name))
                   /\ gpc' = "stat"
                   /\ UNCHANGED idx
    /\ UNCHANGED <<disk, map_file, fast_mode, files_to_process,
                   document_entries, ended, epc, knowledge_map, atCall>>
    /\ UNCHANGED offGen

\* lines 143-157: file_path.stat(), which raises when the file is gone, and
\* the new entry
StatStep ==
    /\ gpc = "stat"
    /\ LET name == files_to_process[idx]
       IN  IF disk[name].present
           THEN /\ document_entries' =
                       Append(document_entries,
                              Entry(Len(document_entries), name,
                                    analysed.description, analysed.key_concepts))
                /\ Advance
                /\ UNCHANGED ended
           ELSE /\ gpc' = "done"
                /\ ended' = EndRaised(FileNotFoundError)
                /\ UNCHANGED <<document_entries, idx>>
    /\ UNCHANGED <<disk, map_file, fast_mode, files_to_process, analysed, epc,
                   knowledge_map, readAs, atCall>>
    /\ UNCHANGED offGen

\* lines 159-177: the index is dumped to the file; fails: open() raises
WriteStep(fails) ==
    /\ gpc = "write"
    /\ gpc' = "done"
    /\ IF fails
       THEN ended' = EndRaised(OSError) /\ UNCHANGED map_file
       ELSE /\ ended' = EndReturned(Created)
            /\ map_file' = IndexFile("map", document_entries)
    /\ UNCHANGED <<disk, fast_mode, files_to_process, idx, document_entries,
                   analysed, epc, knowledge_map, readAs, atCall>>
    /\ UNCHANGED offGen

\* another process removes a document
Unlink(name) ==
    /\ disk[name].present
    /\ disk' = [disk EXCEPT ![name] = Missing]
    /\ UNCHANGED <<map_file, gpc, fast_mode, files_to_process, idx,
                   document_entries, analysed, ended, epc, knowledge_map,
                   readAs, atCall>>
    /\ UNCHANGED offGen

\* ---- the callers ----

\* DocumentExplorer.__init__ (explorer.py 40-53): load the map, and build it
\* when there is none; an exception of the loading leaves the constructor
ExplorerNew ==
    /\ epc = "idle"
    /\ IF LoadRaises(map_file)
       THEN /\ epc' = "failed"
            /\ UNCHANGED <<disk, map_file, gpc, fast_mode, files_to_process,
                           idx, document_entries, analysed, ended,
                           knowledge_map, readAs, atCall>>
       ELSE IF LoadKnowledgeMap(map_file) = None
       THEN GenerateKnowledgeMap(FALSE, "creating") /\ knowledge_map' = None
       ELSE /\ gpc = "idle"
            /\ epc' = "ready"
            /\ knowledge_map' = LoadKnowledgeMap(map_file)
            /\ UNCHANGED <<disk, map_file, gpc, fast_mode, files_to_process,
                           idx, document_entries, analysed, ended, readAs,
                           atCall>>
    /\ UNCHANGED offGen

\* the load after a build: an exception of the build or of the loading
\* leaves the caller, which goes on at position at
LoadBuilt(at) ==
    /\ gpc = "done"
    /\ gpc' = "idle"
    /\ IF ended.kind = "raised" \/ LoadRaises(map_file)
       THEN epc' = at /\ UNCHANGED knowledge_map
       ELSE epc' = "ready" /\ knowledge_map' = LoadKnowledgeMap(map_file)
    /\ UNCHANGED <<disk, map_file, fast_mode, files_to_process, idx,
                   document_entries, analysed, ended, readAs, atCall>>
    /\ UNCHANGED offGen

\* explorer.py 55-59: the constructor loads the map that was built
ExplorerLoaded == epc = "creating" /\ LoadBuilt("failed")

\* the rebuild-map command (cli.py 667-713): the process ends after the call
RebuildMap(fast) ==
    /\ epc = "idle"
    /\ GenerateKnowledgeMap(fast, "build")
    /\ UNCHANGED knowledge_map
    /\ UNCHANGED offGen

RebuildMapDone ==
    /\ epc = "build"
    /\ gpc = "done"
    /\ gpc' = "idle"
    /\ epc' = "idle"
    /\ UNCHANGED <<disk, map_file, fast_mode, files_to_process, idx,
                   document_entries, analysed, ended, knowledge_map, readAs,
                   atCall>>
    /\ UNCHANGED offGen

\* the rebuild command of a chat session (cli.py 173-188)
SlashRebuild ==
    /\ epc = "ready"
    /\ GenerateKnowledgeMap(FALSE, "rebuilding")
    /\ UNCHANGED knowledge_map
    /\ UNCHANGED offGen

\* reload_knowledge_map after the rebuild; every exception is caught and
\* printed by the command
SlashRebuildDone == epc = "rebuilding" /\ LoadBuilt("ready")

NextGen ==
    \/ ExplorerNew
    \/ ExplorerLoaded
    \/ \E fast \in BOOLEAN : RebuildMap(fast)
    \/ RebuildMapDone
    \/ SlashRebuild
    \/ SlashRebuildDone
    \/ ListStep
    \/ CollectStep
    \/ \E reply \in Replies : ReadStep(reply)
    \/ StatStep
    \/ \E fails \in BOOLEAN : WriteStep(fails)
    \/ \E name \in Supported : Unlink(name)

InitGen ==
    /\ InitLockVars /\ QuietBuild /\ QuietCache /\ QuietThreads
    /\ QuietScope /\ QuietProbe /\ QuietWatch /\ QuietAgent /\ QuietChat
    /\ disk \in [Names -> FileStates]
    /\ disk["pic.png"] = Readable(Prose)
    /\ map_file \in {NoIndex, EmptyFile, MalformedFile, OldIndex}
    /\ gpc = "idle"
    /\ fast_mode = FALSE
    /\ files_to_process = <<>>
    /\ idx = 0
    /\ document_entries = <<>>
    /\ analysed = <<>>
    /\ ended = NotEnded
    /\ epc = "idle"
    /\ knowledge_map = None
    /\ readAs = <<>>
    /\ atCall = {}

SpecGen == InitGen /\ [][NextGen]_vars

\* C9: once the interleaved put / get / invalidate calls of the threads have
\* completed, current_size is the sum of the sizes of the resident entries,
\* both capacity bounds hold, and no call was left by an exception caused by
\* the other thread's changes.
C9_ThreadSafe ==
    (\A t \in Threads : th[t].pc = "idle") =>
        /\ current_size = TotalSize(cache)
        /\ Len(cache) <= max_items
        /\ TotalSize(cache) <= max_size_bytes
             \/ (Len(cache) = 1 /\ cache[1].size > max_size_bytes)
        /\ \A t \in Threads : th[t].err = "none"

\* C4: get never returns the content of an entry whose stored mtime differs
\* from the file's current mtime (forward, backward, deleted or unreadable):
\* right after a get that returned content, the entry's mtime is the file's.
C4_NeverServeStale ==
    (lastOp.op = "get" /\ lastOp.ret # None)
        => EntryOf(cache, GetCacheKey(lastOp.path)).mtime = GetFileMtime(lastOp.path)

\* C5: a get issued immediately after put(p, c), the file's mtime unchanged
\* in between, returns exactly c, whatever the size of c and the capacity.
C5_GetAfterPut ==
    [][(/\ lastOp.op = "put"
        /\ lastOp'.op = "get"
        /\ GetCacheKey(lastOp'.path) = GetCacheKey(lastOp.path))
            => lastOp'.ret = Some(lastOp.content)]_vars

\* a get right after a put returned the oversized text, the only entry
C5_Witness ==
    /\ lastOp.op = "get" /\ lastOp.afterPut
    /\ Len(cache) = 1
    /\ lastOp.ret = Some(cache[1].content)
    /\ cache[1].size > max_size_bytes

\* C6: after every put (max_items >= 1): at most max_items entries are
\* resident, and the resident bytes are at most max_size_bytes unless the
\* entry just inserted is alone larger than that, and then it is the only
\* resident entry.
C6_BoundsAfterPut ==
    lastOp.op = "put" =>
        /\ max_items >= 1 => Len(cache) <= max_items
        /\ \/ TotalSize(cache) <= max_size_bytes
           \/ /\ Len(cache) = 1
              /\ cache[1].key = GetCacheKey(lastOp.path)
              /\ cache[1].size > max_size_bytes

\* a put evicted everything else and admitted an oversized entry alone
C6_Witness ==
    /\ lastOp.op = "put" /\ lastOp.evicted # <<>>
    /\ max_items >= 2
    /\ Len(cache) = 1 /\ cache[1].size > max_size_bytes

\* position of key in the recency order
Pos(r, key) == CHOOSE i \in 1..Len(r) : r[i] = key

\* C7: a put evicts in least-recently-used order (recency refreshed by put
\* and by get hits): every evicted entry was used less recently than every
\* entry that stays, eviction stops as soon as both bounds hold, and the
\* inserted entry is resident after its own put.
C7_LruEviction ==
    [][lastOp'.op = "put" =>
        LET k == GetCacheKey(lastOp'.path)
            old == Without(cache, k)
            new == Without(cache', k)
            evicted == Keys(old) \ Keys(new)
            size == Utf8Len(lastOp'.content)
        IN  /\ k \in Keys(cache')
            /\ Keys(new) \subseteq Keys(old)
            /\ \A e \in evicted, r \in Keys(new) : Pos(recency, e) < Pos(recency, r)
            /\ evicted # {} =>
                 LET last == CHOOSE e \in evicted :
                                 \A f \in evicted : Pos(recency, f) <= Pos(recency, e)
                 IN  \/ TotalSize(new) + EntryOf(old, last).size + size > max_size_bytes
                     \/ Len(new) + 1 >= max_items]_vars

\* on a cache that has served a get hit, a put evicted an entry while
\* another entry stayed resident
C7_Witness ==
    /\ lastOp.op = "put" /\ lastOp.evicted # <<>>
    /\ hits >= 1
    /\ Len(cache) >= 2

\* C8: every get increments exactly one of hits and misses by one (hits iff
\* content is returned), clear resets both, and put, invalidate and the
\* evictions they cause leave both unchanged.
C8_Counters ==
    [][/\ lastOp'.op = "get" =>
            \/ lastOp'.ret # None /\ hits' = hits + 1 /\ misses' = misses
            \/ lastOp'.ret = None /\ misses' = misses + 1 /\ hits' = hits
       /\ lastOp'.op = "clear" => hits' = 0 /\ misses' = 0
       /\ lastOp'.op \in {"put", "invalidate", "touch"} =>
            hits' = hits /\ misses' = misses]_vars

\* a put that evicted left non-zero counters as they were
C8_Witness ==
    /\ lastOp.op = "put" /\ lastOp.evicted # <<>>
    /\ hits + misses >= 1

\* C10: once the holder's release() has completed the lock is free: an
\* acquire attempt fails only while another process holds the lock or is in
\* the middle of an acquire() or release(); so an owner without contender
\* that runs acquire, release, acquire gets True both times.
C10_FreeLockIsGranted ==
    [][\A p \in Procs :
          (pc[p] = "acq_flock" /\ pc'[p] = "acq_except")
              => \E q \in Procs \ {p} : is_locked[q] \/ pc[q] # "idle"]_vars

\* an owner holds the lock again after a completed release(), and no other
\* process has ever called acquire()
C10_Witness ==
    \E p \in Procs :
        /\ granted[p] /\ releasedOnce[p] /\ acqResult[p] = "true"
        /\ \A q \in Procs \ {p} :
              pc[q] = "idle" /\ acqResult[q] = "none" /\ ~is_locked[q]

\* the terminal states of an ask() call
Terminal == {"Answered", "Errored", "MaxIterationsExceeded"}

\* C17: every ask() call terminates, in exactly one of Answered, Errored and
\* MaxIterationsExceeded, and at every moment of the call it has made at most
\* max_iterations generation requests and at most max_iterations tool
\* dispatches, whatever the model emits; every dispatch has used up a
\* generation request and an iteration of its own.
C17_AskTerminates ==
    /\ [](/\ requests <= max_iterations
          /\ dispatches <= max_iterations
          /\ dispatches <= requests
          /\ dispatches <= iteration
          /\ (apc = "done") <=> (result.state \in Terminal)
          /\ (apc # "done") => (result.state = "Iterating"))
    /\ (apc = "loop") ~> (apc = "done")
    /\ [][apc = "done" => result' = result]_vars

\* a call that spent every iteration on a tool dispatch has returned
C17_Witness ==
    /\ apc = "done"
    /\ result.state = "MaxIterationsExceeded"
    /\ max_iterations = FairIterations
    /\ requests = max_iterations
    /\ dispatches = max_iterations
    /\ Len(result.steps) = max_iterations


\* the utterances of the running call, oldest first: the assistant replies
\* after the question in the messages
Uttered ==
    LET asked == {i \in 1..Len(messages) : messages[i] = Msg("user", Question)}
        replies == SelectSeq(messages, LAMBDA m : m.role = "assistant")
        before == SelectSeq(SubSeq(messages, 1, CHOOSE i \in asked : TRUE),
                            LAMBDA m : m.role = "assistant")
    IN  IF asked = {} THEN <<>>
        ELSE [k \in 1..(Len(replies) - Len(before)) |-> replies[Len(before) + k].content]

\* the text after the first occurrence of marker
AfterMarker(text, marker) ==
    SubSeq(text, (CHOOSE i \in Positions(text, marker) :
                      \A j \in Positions(text, marker) : i <= j) + 1, Len(text))

\* C18: when the first utterance of a call holds a well-formed action/input
\* pair and the second holds the final-answer marker and no action marker,
\* the call returns the text after the marker (white space at its ends
\* aside) and a step log of exactly one entry, for the tool and the input of
\* the first utterance.
C18_ActionThenFinal ==
    (/\ apc = "done"
     /\ Len(Uttered) >= 2
     /\ WantsTool(Uttered[1])
     /\ Contains(Uttered[2], FinalMarker)
     /\ ~Contains(Uttered[2], ActionMarker))
    => /\ result.state = "Answered"
       /\ result.answer = Strip(AfterMarker(Uttered[2], FinalMarker))
       /\ Len(result.steps) = 1
       /\ result.steps[1].action = Parse(Uttered[1]).action_line[1]
       /\ result.steps[1].input = Parse(Uttered[1]).input_line[1]

\* C19: when the first utterance of a call holds neither the action marker
\* nor the final-answer marker, the call makes no second generation request
\* and no tool dispatch, and returns that utterance verbatim, white space
\* included, with an empty step log.
C19_PlainUtteranceReturned ==
    (/\ Len(Uttered) >= 1
     /\ ~Contains(Uttered[1], ActionMarker)
     /\ ~Contains(Uttered[1], FinalMarker))
    => /\ Len(Uttered) = 1
       /\ requests = 1
       /\ dispatches = 0
       /\ steps = <<>>
       /\ apc \in {"parse", "done"}
       /\ apc = "done" => /\ result.state = "Answered"
                          /\ result.answer = Uttered[1]
                          /\ result.steps = <<>>

\* a call has returned a markerless utterance that ends in a line break
C19_Witness ==
    /\ apc = "done"
    /\ Uttered = <<UPlain>>
    /\ Strip(UPlain) # UPlain
    /\ result = [state |-> "Answered", answer |-> UPlain, steps |-> <<>>]
    /\ requests = 1

\* an action marker that leads to no tool call: no input marker, or an
\* empty tool name or input after the parse
Malformed(text) == Contains(text, ActionMarker) /\ ~WantsTool(text)

\* C20: an utterance with a malformed action directive ends the call in its
\* own iteration: it is the last utterance of the call, no tool is
\* dispatched for it, and the call returns the text after the final-answer
\* marker when the utterance holds one and the whole utterance otherwise.
C20_MalformedIsNoAction ==
    \A k \in 1..Len(Uttered) :
        Malformed(Uttered[k]) =>
            /\ k = Len(Uttered)
            /\ apc \in {"parse", "done"}
            /\ Len(steps) < k
            /\ apc = "done" =>
                   result.answer =
                       IF Contains(Uttered[k], FinalMarker)
                       THEN Strip(AfterMarker(Uttered[k], FinalMarker))
                       ELSE Uttered[k]

\* C21: a tool dispatch never ends the call: whatever the tool name and the
\* input, and whether or not the tool raises, the step appends one entry to
\* the step log and one Observation turn with the same text to the messages
\* and goes back to the head of the loop with the next iteration; an unknown
\* tool name and a search input without the comma give their error texts as
\* the observation; and no call that has dispatched a tool ends in Errored.
C21_ToolFailuresIsolated ==
    /\ [][(apc = "parse" /\ ToolCall) =>
            /\ apc' = "loop"
            /\ iteration' = iteration + 1
            /\ result' = result
            /\ Len(steps') = Len(steps) + 1
            /\ SubSeq(steps', 1, Len(steps)) = steps
            /\ steps'[Len(steps')].action = action_line[1]
            /\ steps'[Len(steps')].input = input_line[1]
            /\ messages' = Append(messages,
                   Msg("user", <<"Observation:", SP>> \o steps'[Len(steps')].observation))
            /\ (action_line[1] \notin Tools =>
                   steps'[Len(steps')].observation = UnknownTool(action_line[1]))
            /\ (action_line[1] = <<"grep">> /\ ~Contains(input_line[1], Comma) =>
                   steps'[Len(steps')].observation
                       \in {GrepUsage, ToolRaised(action_line[1])})]_vars
    /\ [](result.state = "Errored" => dispatches = 0)

\* a call has logged an unknown tool, a search without a file and a tool
\* that raised, one after the other, and is back at the head of the loop
C21_Witness ==
    /\ apc = "loop"
    /\ Len(steps) = 3
    /\ \E i \in 1..3 : steps[i].observation = UnknownTool(<<"delete_file">>)
    /\ \E i \in 1..3 : steps[i].observation = GrepUsage
    /\ \E i \in 1..3 : steps[i].observation = ToolRaised(<<"read_file">>)

\* an error message followed by the fallback search result
ErrorPlusFallback(text) ==
    /\ Len(text) > Len(Fallback)
    /\ text[1] \in {"Error:", "Error during response generation:"}
    /\ SubSeq(text, Len(text) - Len(Fallback) + 1, Len(text)) = Fallback

\* C22: when the last generation request of a call failed, at call time or
\* mid-stream, the call returns the text accumulated from that request's
\* stream when there is some, and otherwise a non-empty answer made of an
\* error message and the fallback search result.
C22_FailedGeneration ==
    (apc = "done" /\ failed.kind # "none") =>
        IF failed.accumulated # <<>>
        THEN result.answer = failed.accumulated
        ELSE ErrorPlusFallback(result.answer)

\* C23: a call that ends at the iteration cap after at least one utterance
\* returns its last utterance, followed by the fallback search result
\* exactly when the utterance holds one of the incomplete-answer phrases;
\* this includes the call whose last iteration dispatched a tool.
C23_CapReturnsLastUtterance ==
    (/\ apc = "done"
     /\ result.state = "MaxIterationsExceeded"
     /\ Len(Uttered) >= 1)
    => result.answer =
           IF IsIncompleteAnswer(Uttered[Len(Uttered)])
           THEN Uttered[Len(Uttered)] \o <<NL, NL>> \o Fallback
           ELSE Uttered[Len(Uttered)]

\* C24: an interrupt raised during generation ends the turn as an interrupt:
\* no turn goes on after one, no turn that was interrupted ends with a
\* returned answer, and conversation_history after an interrupted turn is
\* what it was when the turn began.
C24_InterruptReachesCaller ==
    /\ cpc = "responding" => swallowed = 0
    /\ lastTurn.kind = "answer" => lastTurn.swallowed = 0
    /\ lastTurn.kind = "interrupted" => lastTurn.kept

\* C25: with the interrupts counted since the last submitted input or
\* completed response, the session goes on after the first and has ended
\* after the second.
C25_SecondInterruptExits ==
    /\ pressed = 1 => cpc # "exited"
    /\ pressed >= 2 => cpc = "exited"

\* the latest build wrote the index and returned
IndexWritten == gpc = "done" /\ ended = EndReturned(Created)

\* the entries of the index file for a file
EntriesFor(name) ==
    {i \in 1..Len(map_file.documents) : map_file.documents[i].path = name}

\* a file that can be read and holds more than white space
Indexable(file) == file.present /\ file.readable /\ Strip(file.content) # <<>>

\* C26: when a build has written the index, every collected file that was
\* readable and non-empty when the build read it has exactly one entry,
\* every collected file that was unreadable or empty has none, no other file
\* has an entry, and total_documents is the number of entries.
C26_OneEntryPerReadableFile ==
    IndexWritten =>
        /\ \A k \in 1..Len(files_to_process) :
             Cardinality(EntriesFor(files_to_process[k])) =
                 IF Indexable(readAs[files_to_process[k]]) THEN 1 ELSE 0
        /\ \A i \in 1..Len(map_file.documents) :
             \E k \in 1..Len(files_to_process) :
                 map_file.documents[i].path = files_to_process[k]
        /\ map_file.total_documents = Len(map_file.documents)

\* C27: every entry of the index file and of the list a build is filling
\* has a key_concepts list that is not empty, in both modes and for every
\* reply of the model.
C27_KeyConceptsNeverEmpty ==
    /\ \A i \in 1..Len(map_file.documents) :
         map_file.documents[i].key_concepts # <<>>
    /\ \A i \in 1..Len(document_entries) :
         document_entries[i].key_concepts # <<>>

\* a fast build has written an entry whose concepts are the Han words of
\* the file name, for want of any from the analysis
C27_Witness ==
    /\ IndexWritten
    /\ fast_mode
    /\ \E i \in 1..Len(map_file.documents) :
         /\ map_file.documents[i].path = "yusuan2024.pdf"
         /\ map_file.documents[i].key_concepts = <<"yusuan">>
         /\ map_file.documents[i].description = <<"Document:", SP, "yusuan2024">>

\* C28: a build ends with an exception only when the index file could not
\* be written: no unreadable file, reply of the model or document removed
\* while the build runs makes the call raise, and a build that could write
\* the index has gone through every collected file.
C28_OnlyWriteFailureAborts ==
    /\ gpc = "done" /\ ended.kind = "raised" => ended = EndRaised(OSError)
    /\ IndexWritten => idx = Len(files_to_process) + 1

\* C29: the constructor of the explorer, on a directory whose index file is
\* absent, empty or malformed, starts a build; it fails only when that build
\* raised, and otherwise ends holding the index the build wrote, or none.
C29_BadIndexTriggersBuild ==
    [][/\ (epc = "idle" /\ epc' \notin {"idle", "build"} /\ map_file.kind # "map")
            => epc' = "creating"
       /\ (epc = "creating" /\ epc' = "failed") => ended.kind = "raised"
       /\ (epc = "creating" /\ epc' = "ready") =>
            knowledge_map' \in {None, LoadKnowledgeMap(map_file)}]_vars

\* C30: when a build has returned, every entry of the index file is for a
\* document that was in the directory when that build began.
C30_NoStaleEntries ==
    (gpc = "done" /\ ended.kind = "returned") =>
        \A i \in 1..Len(map_file.documents) :
            map_file.documents[i].path \in atCall

\* C31: the step that ends ask() as Answered extends conversation_history by
\* the question and the returned answer, and no other step of ask() changes
\* conversation_history: not a return as MaxIterationsExceeded or Errored,
\* not an utterance, not a tool observation.
C31_HistoryGrowsByAnsweredTurn ==
    [][conversation_history' =
           IF apc # "done" /\ apc' = "done" /\ result'.state = "Answered"
           THEN conversation_history \o
                    <<Msg("user", Question), Msg("assistant", result'.answer)>>
           ELSE conversation_history]_vars

\* an ask() with an earlier exchange in the history has called a tool and
\* then answered after the final-answer marker
C31_Witness ==
    /\ apc = "done"
    /\ result.state = "Answered"
    /\ Len(steps) > 0
    /\ Contains(assistant_message[1], FinalMarker)
    /\ conversation_history =
           PriorExchange \o <<Msg("user", Question), Msg("assistant", result.answer)>>

\* C32: a check_for_changes call with the stored snapshot and the scan of the
\* directory as it is returns as 'added' the paths of the scan that the
\* snapshot lacks, as 'deleted' the paths of the snapshot that the scan
\* lacks, and as 'modified' the paths of both whose mtime is larger or
\* smaller than stored; the three sets are pairwise disjoint and a path with
\* the same entry in both is in none.
C32_DiffOfSnapshots ==
    [][UNCHANGED <<wmtime, wdenied>> =>
          /\ changes'.added =
                 {f \in WFiles : TakeSnapshot[f] # 0 /\ last_snapshot[f] = 0}
          /\ changes'.deleted =
                 {f \in WFiles : last_snapshot[f] # 0 /\ TakeSnapshot[f] = 0}
          /\ changes'.modified =
                 {f \in WFiles : /\ last_snapshot[f] # 0 /\ TakeSnapshot[f] # 0
                                 /\ \/ TakeSnapshot[f] > last_snapshot[f]
                                    \/ TakeSnapshot[f] < last_snapshot[f]}
          /\ changes'.added \cap changes'.deleted = {}
          /\ changes'.added \cap changes'.modified = {}
          /\ changes'.modified \cap changes'.deleted = {}
          /\ \A f \in WFiles :
                 TakeSnapshot[f] = last_snapshot[f] =>
                     f \notin changes'.added \cup changes'.modified
                                 \cup changes'.deleted]_vars

\* the check just made found one document with an older mtime than stored
\* and the other document gone
C32_Witness ==
    /\ ~changedSince
    /\ changes.deleted # {}
    /\ \E f \in changes.modified : wmtime[f] = 1 /\ last_snapshot[f] = 1

\* C33: a should_rebuild_map call made less than the threshold after the
\* last check returns False and leaves the stored snapshot, the last-check
\* time and the result of the last check as they were; and the first check
\* made after such an early return reports what has changed in the
\* directory since the check before it.
C33_RateLimitedCheck ==
    [][/\ (wpc = "timing" /\ wpc' = "idle"
            /\ now - last_check_time < threshold_minutes)
           => /\ verdict' = FALSE
              /\ UNCHANGED <<last_snapshot, last_check_time, changes>>
       /\ (deferral = "pending" /\ deferral' = "reported")
           => /\ changes'.added = appeared
              /\ changes'.deleted = vanished
              /\ changes'.modified =
                     {f \in Visible \ appeared : wmtime[f] # last_snapshot[f]}]_vars

\* should_rebuild_map returned early while the document was new, and its
\* next call, after the threshold, has reported the document as added
C33_Witness ==
    /\ wpc = "idle"
    /\ deferral = "reported"
    /\ verdict
    /\ changes.added = {Polled}
    /\ last_check_time >= threshold_minutes

\* C36: the warning check_for_updates returns holds a summary that names
\* the added, modified and deleted files that made has_changes() true.
C36_WarningNamesTheChanges ==
    (wpc = "idle" /\ warning # None) =>
        /\ warning[1].text # "No changes detected"
        /\ warning[1].added = Shown(detected.added)
        /\ warning[1].modified = Shown(detected.modified)
        /\ warning[1].deleted = Shown(detected.deleted)

\* C34: while a process holds the lock (acquire() returned True to it and it
\* has not called release() since) the marker path names a file whose body
\* is the id of that process, whatever the contenders do.
C34_MarkerNamesHolder ==
    \A p \in Procs :
        (granted[p] /\ pc[p] = "idle") =>
            lockPath # NoIno /\ inodeBody[lockPath] = p

\* C40: between the calls on a FileLock object, is_locked is True exactly
\* when the object has a descriptor whose description holds the flock: with
\* is_locked True there is such a descriptor, and with is_locked False the
\* object has no descriptor and none of the descriptors it has lost holds a
\* flock.
C40_IsLockedMeansHandle ==
    \A p \in Procs :
        pc[p] = "idle" =>
            /\ is_locked[p] => (lock_file_fd[p] # NoIno /\ fdLocked[p])
            /\ ~is_locked[p] =>
                  /\ lock_file_fd[p] = NoIno
                  /\ \A i \in leaked[p] : flockOwner[i] # p

\* the first chunk at whose arrival the loop breaks, 0 when it reads the
\* stream to its end
BreakAt(stream) ==
    LET breaks == {i \in 1..Len(stream) :
                     i > max_chunks \/ Len(Joined(stream, i - 1)) > max_length}
    IN  IF breaks = {} THEN 0
        ELSE CHOOSE i \in breaks : \A j \in breaks : i <= j

\* C35: a request whose stream raises nothing reads at most max_chunks + 1
\* chunks; it stops at the first chunk that is number max_chunks + 1 or
\* that arrives when the accumulated text is longer than max_length, and
\* then the utterance is what was accumulated with the truncation marker
\* after it; the utterance, truncated or not, is appended to the messages
\* and parsed, and the request is not a failure, also for a stream longer
\* than any limit.
C35_BoundedConsumption ==
    [][(requests' = requests + 1 /\ failed' = NotFailed) =>
        LET at == BreakAt(streamed')
            text == IF at = 0 THEN Joined(streamed', Len(streamed'))
                    ELSE IF at > max_chunks
                    THEN Joined(streamed', at - 1) \o TruncatedChunks
                    ELSE Joined(streamed', at - 1) \o TruncatedLength
            both == Contains(text, ActionMarker) /\ Contains(text, InputMarker)
        IN  /\ chunk_count' = (IF at = 0 THEN Len(streamed') ELSE at)
            /\ chunk_count' <= max_chunks + 1
            /\ assistant_message' = Some(text)
            /\ messages' = Append(messages, Msg("assistant", text))
            /\ action_line' = (IF both THEN Parse(text).action_line ELSE None)
            /\ input_line' = (IF both THEN Parse(text).input_line ELSE None)
            /\ apc' = "parse"
            /\ result' = result
            /\ result.state # "Errored"]_vars

\* a stream of more than max_chunks chunks was cut at chunk max_chunks + 1
\* and its marked utterance stands last in the messages, waiting to be parsed
C35_Witness ==
    /\ apc = "parse"
    /\ failed = NotFailed
    /\ streamed = LongStream
    /\ chunk_count = max_chunks + 1
    /\ Len(messages) > 0
    /\ messages[Len(messages)] =
           Msg("assistant", Joined(LongStream, max_chunks) \o TruncatedChunks)

\* the same for a stream whose first chunk alone is longer than max_length
C35_WitnessLength ==
    /\ apc = "parse"
    /\ failed = NotFailed
    /\ streamed = FatStream
    /\ chunk_count = 2
    /\ messages[Len(messages)] =
           Msg("assistant", Reencode(FatChunk) \o TruncatedLength)

\* C37: a request that fails at call time produces no utterance, so it never
\* appends the utterance of the iteration before to the messages again and
\* never puts an action up for dispatch: every tool call is for an action
\* of an utterance generated in the same iteration.
C37_NoStaleDispatch ==
    [][(requests' = requests + 1 /\ failed'.kind = "call") =>
        /\ \A stale \in Utterances \ {UEmpty} :
               assistant_message = Some(stale) =>
                   messages' # Append(messages, Msg("assistant", stale))
        /\ apc' = "parse" => ~(Truthy(action_line') /\ Truthy(input_line'))]_vars

\* user and assistant turns in strict alternation, the user first
Alternates(history) ==
    /\ Len(history) % 2 = 0
    /\ \A i \in 1..Len(history) :
           history[i].role = (IF i % 2 = 1 THEN "user" ELSE "assistant")

\* C38: whenever no call of the explorer is in progress, after ask(), chat()
\* with or without tools and clear_history() in any order and however they
\* ended, conversation_history has even length and alternates user and
\* assistant turns.
C38_HistoryAlternates ==
    (apc = "idle" /\ cpc = "input") => Alternates(conversation_history)

\* the resident entries stored for the file a path string resolves to
EntriesOf(path) ==
    SelectSeq(cache, LAMBDA e : Resolve(e.path) = Resolve(path))

\* C39: with a single caller, after every put, get, invalidate and clear:
\* current_size is the sum of the stored sizes of the resident entries and
\* is not negative, no two resident entries are for the same resolved path,
\* and right after a put the one entry of its path is the one just put.
C39_SizeIsSumOneEntryPerPath ==
    /\ current_size = TotalSize(cache)
    /\ current_size >= 0
    /\ \A i, j \in 1..Len(cache) :
           Resolve(cache[i].path) = Resolve(cache[j].path) => i = j
    /\ lastOp.op = "put" =>
           EntriesOf(lastOp.path) = <<NewEntry(lastOp.path, lastOp.content)>>

\* two puts in a row, the second as "./a.txt", evicted nothing and left one
\* entry on a cache with room for two: the second replaced what the first
\* had stored for the same file
C39_Witness ==
    /\ lastOp.op = "put" /\ lastOp.afterPut
    /\ lastOp.evicted = <<>>
    /\ max_items >= 2
    /\ lastOp.path = "./a.txt"
    /\ Len(cache) = 1
    /\ cache[1].path = "./a.txt"
    /\ current_size = MiB
    /\ hits >= 1

\* positions inside the body of release()
InRelease == {"rel_unlock", "rel_close", "rel_exists", "rel_unlink"}

\* C11: release() called on an object that does not hold the lock (never
\* acquired, acquire failed, already released) returns at once and changes
\* neither the object nor the marker file nor any flock, whoever holds them;
\* and whenever a release() returns, the object's is_locked is False.
C11_ReleaseIdempotent ==
    [][\A p \in Procs :
          /\ (/\ lastCall'[p] # lastCall[p]
              /\ lastCall'[p] \in {"release", "release_idle"}
              /\ ~is_locked[p])
                 => /\ UNCHANGED <<lockPath, inodeBody, flockOwner, lock_file_fd,
                                   fdLocked, leaked, is_locked, pc>>
                    /\ ~is_locked'[p]
          /\ (pc[p] \in InRelease /\ pc'[p] = "idle") => ~is_locked'[p]]_vars

\* release() has been called on an object whose acquire() had returned
\* False, while another owner holds the flock on the marker file, and the
\* marker file and that flock are still there
C11_Witness ==
    \E p \in Procs, q \in Procs :
        /\ p # q
        /\ lastCall[p] = "release_idle" /\ acqResult[p] = "false" /\ pc[p] = "idle"
        /\ is_locked[q] /\ pc[q] = "idle"
        /\ lockPath # NoIno /\ flockOwner[lockPath] = q

\* process p holds an flock, directly or through a lost descriptor
OwnsFlock(p) == \E i \in Inodes : flockOwner[i] = p

\* C12: scoped acquisition.  __enter__ raises TimeoutError exactly when its
\* acquire() returned False and then the block is not run; the block runs
\* only with the lock acquired; and once the with-statement is left, by the
\* normal end of the block or by an exception, the owner holds nothing any
\* more (is_locked clear, no descriptor, no flock), so that the lock is free
\* for another process.
C12_ScopedAcquisition ==
    /\ [][\A p \in Procs :
            /\ (scope[p] = "enter" /\ scope'[p] = "raised") => acqResult[p] = "false"
            /\ (scope[p] = "enter" /\ scope'[p] = "body")
                   => acqResult[p] = "true" /\ is_locked[p]
            /\ scope'[p] = "body" => scope[p] \in {"enter", "body"}
            /\ (scope[p] = "raised" /\ scope'[p] # "raised") => scope'[p] = "enter"
          ]_vars
    /\ [](\A p \in Procs :
            scope[p] \in {"left", "left_exc"}
               => ~is_locked[p] /\ lock_file_fd[p] = NoIno /\ ~OwnsFlock(p))

\* one owner has left a with-statement whose block ended by an exception,
\* and another process has acquired the lock since and is inside its block
C12_Witness ==
    \E p \in Procs, q \in Procs :
        /\ p # q
        /\ scope[p] = "left_exc" /\ releasedOnce[p]
        /\ scope[q] = "body" /\ is_locked[q] /\ OwnsFlock(q)

\* positions inside acquire()
InAcquire == {"acq_open", "acq_flock", "acq_write", "acq_except"}

\* C13: acquire() always returns, whatever the holder does.  A failed attempt
\* of acquire(blocking=False) is its only one and returns False; a blocking
\* acquire() sleeps one poll interval per failed attempt and returns False
\* at the first failed attempt found after the timeout; and a False return
\* leaves a caller that did not hold the lock with is_locked False, no
\* descriptor and no flock.
C13_AcquireTerminates ==
    /\ \A p \in Procs : (pc[p] \in InAcquire) ~> (pc[p] = "idle")
    /\ [][\A p \in Procs :
            /\ (pc[p] = "acq_except" /\ pc'[p] # "acq_except"
                    /\ (~blocking[p] \/ elapsed[p] >= TimeoutPolls))
                   => pc'[p] = "idle" /\ acqResult'[p] = "false"
            /\ (pc[p] = "acq_except" /\ pc'[p] = "acq_open")
                   => elapsed'[p] = elapsed[p] + 1
            /\ (acqResult'[p] = "false" /\ acqResult[p] # "false" /\ ~is_locked[p])
                   => /\ ~is_locked'[p]
                      /\ lock_file_fd'[p] = NoIno
                      /\ \A i \in Inodes : flockOwner'[i] # p
          ]_vars

\* a blocking acquire() has slept until its timeout and has just failed
\* again, while the holder still holds the lock and has not called release()
C13_Witness ==
    \E p \in Procs, q \in Procs :
        /\ p # q
        /\ pc[p] = "acq_except" /\ blocking[p] /\ elapsed[p] = TimeoutPolls
        /\ is_locked[q] /\ granted[q] /\ pc[q] = "idle"

\* C14: the liveness probe returns False when there is no marker file or
\* when the process id it read names no existing process, True when that id
\* names an existing process, and True when no id could be read.
C14_ProbeContract ==
    [][/\ (ppc = "idle" /\ lockPath = NoIno /\ probeResult' # probeResult)
            => probeResult' = "false"
       /\ (ppc = "open" /\ ppc' = "idle") => probeResult' = "true"
       /\ (ppc = "kill" /\ ppc' = "idle")
            => probeResult' = IF pc[probePid] = "dead" THEN "false" ELSE "true"
      ]_vars

\* a marker file is there, a process has died while it held the lock (it
\* had obtained True from acquire() and never called release()), and no
\* living process holds the lock or is inside acquire() or release()
StaleLock ==
    /\ lockPath # NoIno
    /\ \E p \in Procs : pc[p] = "dead" /\ granted[p]
    /\ \A p \in Procs : pc[p] = "dead" \/ (pc[p] = "idle" /\ ~is_locked[p])

\* C15: a lock whose holder died without release() is stale: a probe of the
\* marker it left behind does not report it as held, and an acquire attempt
\* fails only while a living process holds the lock or is inside acquire()
\* or release().
C15_DeadOwnerIsStale ==
    [][/\ (StaleLock /\ ppc # "idle" /\ ppc' = "idle"
               /\ (ppc = "kill" => pc[probePid] = "dead"))
            => probeResult' = "false"
       /\ \A p \in Procs :
            (pc[p] = "acq_flock" /\ pc'[p] = "acq_except")
               => \E q \in Procs \ {p} :
                     pc[q] # "dead" /\ (is_locked[q] \/ pc[q] # "idle")
      ]_vars

\* C16: check_for_changes reports the changes since the previous check (the
\* construction for the first call) and stores its scan: 'added' holds
\* exactly the documents that have appeared since then and 'deleted' those
\* that have vanished, so that a document added once is in 'added' in exactly
\* one call; 'modified' holds the documents seen by both scans whose mtime
\* differs; and a call with no change of the directory since the previous
\* call returns three empty sets.
C16_DeltaSinceLastCheck ==
    /\ [][changes' # changes \/ last_snapshot' # last_snapshot
             \/ (changedSince /\ ~changedSince')
            => /\ changes'.added = appeared
               /\ changes'.added \cap reported = {}
               /\ changes'.deleted = vanished
               /\ changes'.modified =
                      {f \in Visible \ appeared : wmtime[f] # last_snapshot[f]}
               /\ last_snapshot' = TakeSnapshot
               /\ ~changedSince => changes' = NoChanges]_vars
    /\ [](~changedSince => last_snapshot = TakeSnapshot)

\* a document that was added after the construction has been reported in
\* 'added' by an earlier check, and the check just made, with the directory
\* unchanged since, returned three empty sets
C16_Witness ==
    /\ changes = NoChanges
    /\ ~changedSince
    /\ \E f \in reported : last_snapshot[f] # 0 /\ f.suffix = ".MD"

\* C1: the lock is never double-granted: at most one process at a time has
\* obtained True from acquire() without having called release() since.
C1_NoDoubleGrant == Cardinality({p \in Procs : granted[p]}) <= 1

====
